---- MODULE Spec2Model ----
(***************************************************************************)
(* K-Vault cloudreve-adapter: the mapping store (db.js), the sync engine,  *)
(* the download proxy and the import engine (sync.js), the eviction pass   *)
(* (cache.js) and the two store clients they call (cloudreve.js,           *)
(* telegram.js).                                                           *)
(*                                                                         *)
(* Node runs every handler on one thread: a handler runs without           *)
(* interruption from one `await` to the next.  Each action below is one    *)
(* such stretch of code: it begins when the awaited store call completes   *)
(* (with one of its outcomes), runs the code that follows it, and ends at  *)
(* the next `await` or at the handler's return.  A store call takes its    *)
(* effect on the store in the step in which it completes.                  *)
(*                                                                         *)
(* Texts (file names, error messages, URLs) are sequences of string        *)
(* tokens; string interpolation is concatenation.                          *)
(***************************************************************************)
EXTENDS Integers, Sequences, FiniteSets, TLC

VARIABLES
    table,      \* file_mappings: the rows in insertion order (row id = position)
    crFiles,    \* primary store (Cloudreve): path -> file, or NoFile
    nextCrId,   \* the id the primary store gives the next uploaded file
    tgStore,    \* secondary store (Telegram channel): file_id -> object, append-only
    now,        \* Math.floor(Date.now() / 1000)
    idleSecs,   \* cfg.cacheIdleDays * 24 * 60 * 60
    tasks,      \* the invocations in flight: position and local variables of each
    started,    \* the number of invocations made so far
    sequential, \* TRUE when the caller awaits each invocation before the next
    history     \* the completed invocations, in order (kept only when sequential)

vars == <<table, crFiles, nextCrId, tgStore, now, idleSecs, tasks, started,
          sequential, history>>

----------------------------------------------------------------------------
(* Bounds of the model *)

\* The clock runs from 1 to MaxClock.
MaxClock == 2
\* The primary store accepts at most this many uploads (restore, import).
MaxCrUploads == 2
\* The secondary store accepts at most this many uploads (sync).
MaxTgUploads == 2
\* The idle threshold is chosen in 0..MaxIdle.
MaxIdle == 0
\* At most this many invocations are made in all.
MaxOps == 2

Tasks == {"t1", "t2"}

----------------------------------------------------------------------------
(* Values *)

NoId      == 0          \* null where an id or a number is expected
NullStr   == ""         \* null / undefined / '' where a string is expected
NoName    == <<>>       \* null / undefined / '' where a file name is expected
NoPath    == <<>>

\* cfg.cloudreve.inboxPath (default), cfg.cloudreve.baseUrl, cfg.telegram.*
InboxPath == "/TelegramInbox"
BaseUrl   == "http://cloudreve:5212"
ApiBase   == "https://api.telegram.org"
BotToken  == "TG_BOT_TOKEN"

DefaultMime == "application/octet-stream"

NameA == <<"a">>
NameB == <<"b", "_">>
\* The files a user has put into the inbox directory of the primary store,
\* in the order the directory listing returns them.
InboxNames == <<NameA, NameB>>

\* `${dir.replace(/\/+$/, '')}/${name}`: a path is the pair of its directory
\* (without trailing slashes) and its file name.
JoinPath(dir, name) == <<dir, name>>
Dirname(p)  == p[1]
Basename(p) == p[2]
PathText(p) == <<p[1], "/">> \o p[2]

Paths == {JoinPath(InboxPath, InboxNames[i]) : i \in 1..Len(InboxNames)}

\* JS `a || b` on strings and on file names
OrStr(a, b)  == IF a = NullStr THEN b ELSE a
OrName(a, b) == IF a = NoName THEN b ELSE a
\* JS `a || b` and `a ?? b` on numbers, with NoId for null / undefined / 0
OrNum(a, b)  == IF a = NoId THEN b ELSE a

\* Buffer.length of a file's content
BufLen(data) == IF data = NullStr THEN 0 ELSE 1

Range(s) == {s[i] : i \in 1..Len(s)}

\* s contains sub as a contiguous run of tokens
Contains(s, sub) ==
    \E i \in 1..(Len(s) - Len(sub) + 1) : SubSeq(s, i, i + Len(sub) - 1) = sub

----------------------------------------------------------------------------
(* db.js: the mapping store *)

NoRow ==
    [id |-> NoId, cloudreve_file_id |-> NoId, cloudreve_path |-> NoPath,
     telegram_file_id |-> NoId, telegram_message_id |-> NoId,
     file_name |-> NoName, file_size |-> 0, mime_type |-> NullStr,
     last_accessed |-> 0, created_at |-> 0, has_local_cache |-> 0]

\* The positions of the rows stored under path p.
RowsAt(tbl, p) == {i \in 1..Len(tbl) : tbl[i].cloudreve_path = p}

\* SELECT * FROM file_mappings WHERE cloudreve_path = ?  (.get: the first row) ?? null
getMappingByPath(tbl, p) ==
    IF RowsAt(tbl, p) = {} THEN NoRow
    ELSE tbl[CHOOSE i \in RowsAt(tbl, p) : \A j \in RowsAt(tbl, p) : i <= j]

\* The values bound by stmt.run: the `??` defaults of upsertMapping.
\* A caller leaves a field out by passing NoId / NullStr / NoName; -1 stands for
\* an absent lastAccessed, createdAt or hasLocalCache (0 is a value there).
BoundValues(rec, clock) ==
    [cloudreve_file_id   |-> rec.cloudreveFileId,
     cloudreve_path      |-> rec.cloudreve_path,
     telegram_file_id    |-> rec.telegramFileId,
     telegram_message_id |-> rec.telegramMessageId,
     file_name           |-> rec.fileName,
     file_size           |-> rec.fileSize,
     mime_type           |-> rec.mimeType,
     last_accessed       |-> IF rec.lastAccessed = -1 THEN 0 ELSE rec.lastAccessed,
     created_at          |-> IF rec.createdAt = -1 THEN clock ELSE rec.createdAt,
     has_local_cache     |-> IF rec.hasLocalCache = -1 THEN 1 ELSE rec.hasLocalCache]

\* Variant: INSERT OR REPLACE semantics, where the new values replace the whole
\* row, created_at included.
ConflictReplace(old, v) ==
    [old EXCEPT !.cloudreve_file_id   = v.cloudreve_file_id,
                !.telegram_file_id    = v.telegram_file_id,
                !.telegram_message_id = v.telegram_message_id,
                !.file_name           = v.file_name,
                !.file_size           = v.file_size,
                !.mime_type           = v.mime_type,
                !.last_accessed       = v.last_accessed,
                !.created_at          = v.created_at,
                !.has_local_cache     = v.has_local_cache]

\* ON CONFLICT(cloudreve_path) DO UPDATE SET ...: every column but id,
\* cloudreve_path and created_at takes the excluded (new) value.
ConflictUpdate(old, v) ==
    [old EXCEPT !.cloudreve_file_id   = v.cloudreve_file_id,
                !.telegram_file_id    = v.telegram_file_id,
                !.telegram_message_id = v.telegram_message_id,
                !.file_name           = v.file_name,
                !.file_size           = v.file_size,
                !.mime_type           = v.mime_type,
                !.last_accessed       = v.last_accessed,
                !.has_local_cache     = v.has_local_cache]

\* INSERT INTO file_mappings (...) VALUES (...): a new row with the next id.
InsertRow(tbl, v) ==
    Append(tbl,
        [id |-> Len(tbl) + 1,
         cloudreve_file_id   |-> v.cloudreve_file_id,
         cloudreve_path      |-> v.cloudreve_path,
         telegram_file_id    |-> v.telegram_file_id,
         telegram_message_id |-> v.telegram_message_id,
         file_name           |-> v.file_name,
         file_size           |-> v.file_size,
         mime_type           |-> v.mime_type,
         last_accessed       |-> v.last_accessed,
         created_at          |-> v.created_at,
         has_local_cache     |-> v.has_local_cache])

upsertMapping(tbl, rec, clock) ==
    LET v == BoundValues(rec, clock) IN
    IF RowsAt(tbl, v.cloudreve_path) = {}
    THEN InsertRow(tbl, v)
    ELSE [i \in 1..Len(tbl) |->
            IF tbl[i].cloudreve_path = v.cloudreve_path
            THEN ConflictUpdate(tbl[i], v) ELSE tbl[i]]

\* Variant: the UPDATE is restricted to rows that are cached.
touchMappingIfCached(tbl, p, clock) ==
    [i \in 1..Len(tbl) |->
        IF tbl[i].cloudreve_path = p /\ tbl[i].has_local_cache = 1
        THEN [tbl[i] EXCEPT !.last_accessed = clock] ELSE tbl[i]]

\* UPDATE file_mappings SET last_accessed = ? WHERE cloudreve_path = ?
touchMapping(tbl, p, clock) ==
    [i \in 1..Len(tbl) |->
        IF tbl[i].cloudreve_path = p
        THEN [tbl[i] EXCEPT !.last_accessed = clock] ELSE tbl[i]]

\* Variant: an UPDATE that matches no row and leaves the flag as it was.
markEvictedNoRow(tbl, p) == tbl

\* Variant: the UPDATE also clears cloudreve_file_id.
markEvictedClearsId(tbl, p) ==
    [i \in 1..Len(tbl) |->
        IF tbl[i].cloudreve_path = p
        THEN [tbl[i] EXCEPT !.has_local_cache = 0, !.cloudreve_file_id = NoId]
        ELSE tbl[i]]

\* Variant: a DELETE of the row instead of the UPDATE of its flag.
markEvictedDeletes(tbl, p) == SelectSeq(tbl, LAMBDA r : r.cloudreve_path # p)

\* UPDATE file_mappings SET has_local_cache = 0 WHERE cloudreve_path = ?
markEvicted(tbl, p) ==
    [i \in 1..Len(tbl) |->
        IF tbl[i].cloudreve_path = p
        THEN [tbl[i] EXCEPT !.has_local_cache = 0] ELSE tbl[i]]

\* Variant: the UPDATE without its WHERE clause.
markCachedAllRows(tbl, p, clock) ==
    [i \in 1..Len(tbl) |->
        [tbl[i] EXCEPT !.has_local_cache = 1, !.last_accessed = clock]]

\* UPDATE file_mappings SET has_local_cache = 1, last_accessed = ? WHERE cloudreve_path = ?
markCached(tbl, p, clock) ==
    [i \in 1..Len(tbl) |->
        IF tbl[i].cloudreve_path = p
        THEN [tbl[i] EXCEPT !.has_local_cache = 1, !.last_accessed = clock]
        ELSE tbl[i]]

\* Variant: `last_accessed <= cutoff`, which takes a row accessed this second.
StaleRowInclusive(r, cutoff) ==
    r.has_local_cache = 1 /\ r.last_accessed <= cutoff /\ r.last_accessed > 0

\* Variant: the WHERE clause without `AND last_accessed > 0`.
StaleRowNeverRead(r, cutoff) ==
    r.has_local_cache = 1 /\ r.last_accessed < cutoff

\* SELECT * ... WHERE has_local_cache = 1 AND last_accessed < cutoff AND last_accessed > 0
StaleRow(r, cutoff) ==
    r.has_local_cache = 1 /\ r.last_accessed < cutoff /\ r.last_accessed > 0

getStaleEntries(tbl, thresholdSeconds, clock) ==
    LET cutoff == clock - thresholdSeconds
    IN  SelectSeq(tbl, LAMBDA r : StaleRow(r, cutoff))

----------------------------------------------------------------------------
(* The two stores *)

NoFile == [fileId |-> NoId, name |-> NoName, data |-> NullStr, ctype |-> NullStr]

\* The path under which the primary store holds the file with this id, if any.
CrPathsOfId(cr, fid) == {p \in DOMAIN cr : fid # NoId /\ cr[p].fileId = fid}
CrHasId(cr, fid) == CrPathsOfId(cr, fid) # {}
CrFileOfId(cr, fid) == cr[CHOOSE p \in CrPathsOfId(cr, fid) : TRUE]

\* GET /api/v3/directory<dir>: the objects of the directory, files and folders.
DirObject(name) == [name |-> name, type |-> "dir", fileId |-> NoId, size |-> 0]
FileObject(cr, dir, name) ==
    [name |-> name, type |-> "file",
     fileId |-> cr[JoinPath(dir, name)].fileId,
     size |-> BufLen(cr[JoinPath(dir, name)].data)]
listDirectory(cr, dir) ==
    SelectSeq([i \in 1..Len(InboxNames) |-> FileObject(cr, dir, InboxNames[i])],
              LAMBDA o : o.fileId # NoId)
    \o <<DirObject(<<"s", "u", "b">>)>>

\* The primary store after uploadFile({filePath: p, fileName, mimeType, data})
\* has completed: a new file id, kept with the name and the type it was sent with.
CrPut(cr, p, fid, fileName, data, mime) ==
    [cr EXCEPT ![p] = [fileId |-> fid, name |-> fileName, data |-> data,
                       ctype |-> mime]]
\* The primary store after DELETE /api/v3/object for path p.
CrDelete(cr, p) == [cr EXCEPT ![p] = NoFile]

\* The secondary store after sendDocument/sendPhoto/...: file_id = position.
TgPut(tg, data, mime, caption) ==
    Append(tg, [data |-> data, ctype |-> mime, caption |-> caption])
TgHasId(tg, fid) == fid \in 1..Len(tg)

\* The files the bot has received: they are in the secondary store from the start.
BotFiles == <<[data |-> "dT", ctype |-> "image/png", caption |-> NoPath]>>

----------------------------------------------------------------------------
(* telegram.js: URLs and error messages *)

\* Telegram's file_path for a file_id, as getFile returns it.
TgFilePath(fid) == <<"documents/file_", ToString(fid)>>

\* `${this.apiBase}/file/bot${this.botToken}/${filePath}`
cdnUrl(filePath) == <<ApiBase, "/file/bot", BotToken, "/">> \o filePath

\* `${this.apiBase}/bot${this.botToken}/${method}`
apiUrl(method) == <<ApiBase, "/bot", BotToken, "/", method>>

\* node-fetch's rejection of fetch(url) on a transport error:
\* FetchError `request to ${url} failed, reason: ${err.message}`
FetchErrorText(url) == <<"request to ">> \o url \o <<" failed, reason: ", "ECONNRESET">>

\* The outcomes of TelegramClient.downloadFile(fileId) other than success:
\* the message of the error it throws.
TgDownloadErrors(fid) ==
    { FetchErrorText(apiUrl("getFile")),                            \* _call: fetch rejects
      <<"Telegram API error [", "getFile", "]: ", "unknown">>,     \* _call: !json.ok
      <<"Telegram getFile returned no file_path for ", ToString(fid)>>,
      FetchErrorText(cdnUrl(TgFilePath(fid))),                      \* fetch(url) rejects
      <<"Failed to download file from Telegram CDN (", "404", ")">> } \* !res.ok

----------------------------------------------------------------------------
(* Invocations *)

NoResult ==
    [ok |-> FALSE, status |-> 0, message |-> <<>>,
     buffer |-> NullStr, fileName |-> NoName, mimeType |-> NullStr,
     synced |-> 0, evicted |-> 0, errors |-> 0,
     cloudreve_path |-> NoPath, tgFileId |-> NoId, directLink |-> <<>>]

NoReq == [telegramFileId |-> NoId, telegramMessageId |-> NoId,
          fileName |-> NoName, mimeType |-> NullStr, fileSize |-> 0]

IdleTask ==
    [kind |-> "none", pc |-> "idle", path |-> NoPath, req |-> NoReq,
     files |-> <<>>, idx |-> 0, synced |-> 0, errors |-> 0,
     mapping |-> NoRow, buffer |-> NullStr, mimeType |-> NullStr,
     result |-> NoResult, calls |-> <<>>]

InFlight(t) == tasks[t].pc \notin {"idle", "done"}

\* A handler may be invoked in slot t: nothing is running there.  The second
\* slot is taken only while the first is busy; a sequential caller never has
\* two invocations in flight.
FreeSlot == IF InFlight("t1") THEN "t2" ELSE "t1"

CanStart(t) ==
    /\ t = FreeSlot
    /\ ~InFlight(t)
    /\ started < MaxOps
    /\ t = "t2" => ~sequential

\* The invocation in slot t returns (ok) or throws (~ok) with result res.
Finished(st, res) ==
    [IdleTask EXCEPT !.kind = st.kind, !.pc = "done", !.path = st.path,
                     !.req = st.req, !.result = res, !.calls = st.calls]

Completed(st) == [kind |-> st.kind, path |-> st.path, req |-> st.req,
                  result |-> st.result, calls |-> st.calls]

\* The tasks and the history after slot t has moved to st.
Step(t, st) ==
    /\ tasks' = [tasks EXCEPT ![t] = st]
    /\ history' = IF sequential /\ st.pc = "done"
                  THEN Append(history, Completed(st)) ELSE history
    /\ started' = IF InFlight(t) THEN started ELSE started + 1
    /\ UNCHANGED sequential

Returns(st, res) == Finished(st, [res EXCEPT !.ok = TRUE, !.status = 200])
Throws(st, status, message) ==
    Finished(st, [NoResult EXCEPT !.status = status, !.message = message])

----------------------------------------------------------------------------
(* sync.js: syncNewUploads *)

\* Variant: a loop that skips only the files whose mapping is cached.
NextNewSkipsCached(tbl, dir, files, from) ==
    LET cand == {i \in from..Len(files) :
                    getMappingByPath(tbl, JoinPath(dir, files[i].name)).has_local_cache # 1}
    IN  IF cand = {}
        THEN (IF from > Len(files) THEN from ELSE Len(files) + 1)
        ELSE CHOOSE i \in cand : \A j \in cand : i <= j

\* Variant: a loop that skips nothing and takes every listed file as new.
NextNewNoSkip(tbl, dir, files, from) == from

\* The files of the listing, from position `from` on, the loop skips:
\* the position of the first file with no mapping (Len + 1 if there is none).
RECURSIVE NextNew(_, _, _, _)
NextNew(tbl, dir, files, from) ==
    IF from > Len(files) THEN from
    ELSE IF getMappingByPath(tbl, JoinPath(dir, files[from].name)) = NoRow
         THEN from
         ELSE NextNew(tbl, dir, files, from + 1)

\* The loop head, entered with the file at position `from`: skip the files that
\* have a mapping in tbl, then start downloading the first that has none, or
\* return {synced, errors} when the listing is exhausted.
SyncLoop(st, tbl, from) ==
    LET i == NextNew(tbl, st.path[1], st.files, from) IN
    IF i > Len(st.files)
    THEN Returns([st EXCEPT !.idx = i],
                 [NoResult EXCEPT !.synced = st.synced, !.errors = st.errors])
    ELSE [st EXCEPT !.idx = i, !.pc = "s_download",
                    !.calls = Append(st.calls, "cloudreve.downloadFile")]

\* syncNewUploads(dirPath) is called: ensureDirectory and listDirectory are awaited.
SyncStart(t) ==
    /\ CanStart(t)
    /\ Step(t, [IdleTask EXCEPT !.kind = "sync", !.pc = "s_list",
                                !.path = <<InboxPath>>,
                                !.calls = <<"cloudreve.createDirectory",
                                            "cloudreve.listDirectory">>])
    /\ UNCHANGED <<table, crFiles, nextCrId, tgStore, now, idleSecs>>

\* listDirectory returns the listing: keep the file-type entries and enter the loop.
SyncListed(t) ==
    /\ tasks[t].pc = "s_list"
    /\ LET listing == listDirectory(crFiles, tasks[t].path[1])
           files   == SelectSeq(listing, LAMBDA o : o.type = "file")
       IN  Step(t, SyncLoop([tasks[t] EXCEPT !.files = files], table, 1))
    /\ UNCHANGED <<table, crFiles, nextCrId, tgStore, now, idleSecs>>

\* listDirectory throws (_authJson: login failed, !res.ok or code !== 0): nothing
\* catches it, syncNewUploads rejects.
SyncListFailed(t) ==
    /\ tasks[t].pc = "s_list"
    /\ Step(t, Throws(tasks[t], 500,
                      <<"Cloudreve API error [", "/api/v3/directory", "]">>))
    /\ UNCHANGED <<table, crFiles, nextCrId, tgStore, now, idleSecs>>

\* cloudreve.downloadFile answers ok and fileRes.buffer() gives the bytes:
\* the upload to Telegram is started.
SyncDownloaded(t) ==
    /\ tasks[t].pc = "s_download"
    /\ LET st  == tasks[t]
           fid == st.files[st.idx].fileId
       IN  /\ CrHasId(crFiles, fid)
           /\ Step(t, [st EXCEPT !.pc = "s_upload",
                                 !.buffer = CrFileOfId(crFiles, fid).data,
                                 !.mimeType = OrStr(CrFileOfId(crFiles, fid).ctype,
                                                    DefaultMime),
                                 !.calls = Append(st.calls, "telegram.uploadFile")])
    /\ UNCHANGED <<table, crFiles, nextCrId, tgStore, now, idleSecs>>

\* Variant: a failed download ends the pass.
SyncDownloadFailedAborts(t) ==
    /\ tasks[t].pc = "s_download"
    /\ LET st == tasks[t]
       IN  Step(t, Returns(st, [NoResult EXCEPT !.synced = st.synced,
                                                !.errors = st.errors + 1]))
    /\ UNCHANGED <<table, crFiles, nextCrId, tgStore, now, idleSecs>>

\* cloudreve.downloadFile throws, answers !ok, or buffer() throws:
\* errors++ and the loop goes on with the next file.
SyncDownloadFailed(t) ==
    /\ tasks[t].pc = "s_download"
    /\ LET st == tasks[t]
       IN  Step(t, SyncLoop([st EXCEPT !.errors = st.errors + 1], table, st.idx + 1))
    /\ UNCHANGED <<table, crFiles, nextCrId, tgStore, now, idleSecs>>

\* Variant: the record is written with hasLocalCache 0.
SyncRecordNotCached(st, tgFileId, clock) ==
    LET file == st.files[st.idx] IN
    [cloudreveFileId   |-> file.fileId,
     cloudreve_path    |-> JoinPath(st.path[1], file.name),
     telegramFileId    |-> tgFileId,
     telegramMessageId |-> tgFileId,
     fileName          |-> file.name,
     fileSize          |-> OrNum(file.size, BufLen(st.buffer)),
     mimeType          |-> st.mimeType,
     lastAccessed      |-> clock,
     createdAt         |-> clock,
     hasLocalCache     |-> 0]

\* Variant: the record is written without the id telegram.uploadFile returned.
SyncRecordNoTgId(st, tgFileId, clock) ==
    LET file == st.files[st.idx] IN
    [cloudreveFileId   |-> file.fileId,
     cloudreve_path    |-> JoinPath(st.path[1], file.name),
     telegramFileId    |-> NoId,
     telegramMessageId |-> tgFileId,
     fileName          |-> file.name,
     fileSize          |-> OrNum(file.size, BufLen(st.buffer)),
     mimeType          |-> st.mimeType,
     lastAccessed      |-> clock,
     createdAt         |-> clock,
     hasLocalCache     |-> 1]

\* The record syncNewUploads passes to db.upsertMapping.
SyncRecord(st, tgFileId, clock) ==
    LET file == st.files[st.idx] IN
    [cloudreveFileId   |-> file.fileId,
     cloudreve_path    |-> JoinPath(st.path[1], file.name),
     telegramFileId    |-> tgFileId,
     telegramMessageId |-> tgFileId,
     fileName          |-> file.name,
     fileSize          |-> OrNum(file.size, BufLen(st.buffer)),
     mimeType          |-> st.mimeType,
     lastAccessed      |-> clock,
     createdAt         |-> clock,
     hasLocalCache     |-> 1]

\* telegram.uploadFile returns {fileId, messageId}: the mapping is written,
\* synced++ and the loop goes on.
SyncUploaded(t) ==
    /\ tasks[t].pc = "s_upload"
    /\ Len(tgStore) < Len(BotFiles) + MaxTgUploads
    /\ LET st   == tasks[t]
           file == st.files[st.idx]
           tgId == Len(tgStore) + 1
           tbl  == upsertMapping(table, SyncRecord(st, tgId, now), now)
       IN  /\ tgStore' = TgPut(tgStore, st.buffer, st.mimeType,
                               JoinPath(st.path[1], file.name))
           /\ table' = tbl
           /\ Step(t, SyncLoop([st EXCEPT !.synced = st.synced + 1], tbl, st.idx + 1))
    /\ UNCHANGED <<crFiles, nextCrId, now, idleSecs>>

\* Variant: the error of telegram.uploadFile is not caught.
SyncUploadRethrows(t) ==
    /\ tasks[t].pc = "s_upload"
    /\ Step(t, Throws(tasks[t], 500,
                      <<"Telegram API error [", "sendDocument", "]: ", "unknown">>))
    /\ UNCHANGED <<table, crFiles, nextCrId, tgStore, now, idleSecs>>

\* telegram.uploadFile throws: errors++ and the loop goes on.
SyncUploadFailed(t) ==
    /\ tasks[t].pc = "s_upload"
    /\ LET st == tasks[t]
       IN  Step(t, SyncLoop([st EXCEPT !.errors = st.errors + 1], table, st.idx + 1))
    /\ UNCHANGED <<table, crFiles, nextCrId, tgStore, now, idleSecs>>

----------------------------------------------------------------------------
(* sync.js: downloadProxy *)

\* The restore path is entered: telegram.downloadFile is awaited.
ProxyRestore(st) ==
    [st EXCEPT !.pc = "p_tgdownload",
               !.calls = Append(st.calls, "telegram.downloadFile")]

\* Variant: the thrown error carries no status, so the route answers 500.
ProxyNotFoundNoStatus(t, p) ==
    /\ CanStart(t)
    /\ getMappingByPath(table, p) = NoRow
    /\ Step(t, Throws([IdleTask EXCEPT !.kind = "proxy", !.path = p], 500,
                      <<"No mapping found for path: ">> \o PathText(p)))
    /\ UNCHANGED <<table, crFiles, nextCrId, tgStore, now, idleSecs>>

\* downloadProxy(cloudreve_path) is called on a path with no mapping: it throws
\* an Error with status 404.
ProxyNotFound(t, p) ==
    /\ CanStart(t)
    /\ getMappingByPath(table, p) = NoRow
    /\ Step(t, Throws([IdleTask EXCEPT !.kind = "proxy", !.path = p], 404,
                      <<"No mapping found for path: ">> \o PathText(p)))
    /\ UNCHANGED <<table, crFiles, nextCrId, tgStore, now, idleSecs>>

\* downloadProxy(cloudreve_path) is called on a path with a mapping: the mapping
\* is touched, then the cached copy is fetched (case A) or the restore begins.
ProxyStart(t, p) ==
    /\ CanStart(t)
    /\ getMappingByPath(table, p) # NoRow
    /\ LET mapping == getMappingByPath(table, p)
           st == [IdleTask EXCEPT !.kind = "proxy", !.path = p, !.mapping = mapping]
       IN  /\ table' = touchMapping(table, p, now)
           /\ Step(t, IF mapping.has_local_cache # 0
                      THEN [st EXCEPT !.pc = "p_hit",
                                      !.calls = <<"cloudreve.downloadFile">>]
                      ELSE ProxyRestore(st))
    /\ UNCHANGED <<crFiles, nextCrId, tgStore, now, idleSecs>>

\* fileRes.headers.get('content-type') of a download of file f: the type the
\* primary store reported for the file when it was listed or stored, the
\* generic type a signed download URL may be served with, or no header.
LiveHeaders(f) == {f.ctype, DefaultMime, NullStr}

\* Variant: a cache hit that calls markCached before it returns.
ProxyHitMarksCached(t) ==
    /\ tasks[t].pc = "p_hit"
    /\ LET st  == tasks[t]
           fid == st.mapping.cloudreve_file_id
       IN  /\ CrHasId(crFiles, fid)
           /\ \E header \in LiveHeaders(CrFileOfId(crFiles, fid)) :
                Step(t, Returns(st,
                    [NoResult EXCEPT
                        !.buffer   = CrFileOfId(crFiles, fid).data,
                        !.fileName = st.mapping.file_name,
                        !.mimeType = OrStr(header,
                                           OrStr(st.mapping.mime_type, DefaultMime))]))
           /\ table' = markCached(table, st.path, now)
    /\ UNCHANGED <<crFiles, nextCrId, tgStore, now, idleSecs>>

\* Case A: cloudreve.downloadFile answers ok: the cached bytes are returned.
ProxyHit(t) ==
    /\ tasks[t].pc = "p_hit"
    /\ LET st  == tasks[t]
           fid == st.mapping.cloudreve_file_id
       IN  /\ CrHasId(crFiles, fid)
           /\ \E header \in LiveHeaders(CrFileOfId(crFiles, fid)) :
                Step(t, Returns(st,
                    [NoResult EXCEPT
                        !.buffer   = CrFileOfId(crFiles, fid).data,
                        !.fileName = st.mapping.file_name,
                        !.mimeType = OrStr(header,
                                           OrStr(st.mapping.mime_type, DefaultMime))]))
    /\ UNCHANGED <<table, crFiles, nextCrId, tgStore, now, idleSecs>>

\* Variant: the failed fetch of the cached copy fails the request.
ProxyHitFailedThrows(t) ==
    /\ tasks[t].pc = "p_hit"
    /\ Step(t, Throws(tasks[t], 502, <<"Cloudreve download failed">>))
    /\ UNCHANGED <<table, crFiles, nextCrId, tgStore, now, idleSecs>>

\* Case A: cloudreve.downloadFile answers !ok or throws: fall through to case B.
ProxyHitFailed(t) ==
    /\ tasks[t].pc = "p_hit"
    /\ Step(t, ProxyRestore(tasks[t]))
    /\ UNCHANGED <<table, crFiles, nextCrId, tgStore, now, idleSecs>>

\* Case B: telegram.downloadFile returns {buffer, mimeType}; the parent directory
\* is ensured and the upload to Cloudreve is started.
ProxyTgDownloaded(t) ==
    /\ tasks[t].pc = "p_tgdownload"
    /\ LET st  == tasks[t]
           fid == st.mapping.telegram_file_id
       IN  /\ TgHasId(tgStore, fid)
           /\ Step(t, [st EXCEPT
                    !.pc = "p_upload",
                    !.buffer = tgStore[fid].data,
                    !.mimeType = OrStr(st.mapping.mime_type,
                                       OrStr(tgStore[fid].ctype, DefaultMime)),
                    !.calls = st.calls \o <<"cloudreve.createDirectory",
                                            "cloudreve.uploadFile">>])
    /\ UNCHANGED <<table, crFiles, nextCrId, tgStore, now, idleSecs>>

\* Case B: telegram.downloadFile throws: nothing catches it, downloadProxy
\* rejects with that error (the route answers 500 with err.message).
ProxyTgDownloadFailed(t) ==
    /\ tasks[t].pc = "p_tgdownload"
    /\ \E msg \in TgDownloadErrors(tasks[t].mapping.telegram_file_id) :
            Step(t, Throws(tasks[t], 500, msg))
    /\ UNCHANGED <<table, crFiles, nextCrId, tgStore, now, idleSecs>>

\* mapping.file_name || 'file'
ProxyFileName(mapping) == OrName(mapping.file_name, <<"f", "i", "l", "e">>)

\* Variant: the record leaves telegramMessageId out.
RestoreRecordNoMessageId(st, newCloudreveId, clock) ==
    [cloudreveFileId   |-> newCloudreveId,
     cloudreve_path    |-> st.path,
     telegramFileId    |-> st.mapping.telegram_file_id,
     telegramMessageId |-> NoId,
     fileName          |-> ProxyFileName(st.mapping),
     fileSize          |-> BufLen(st.buffer),
     mimeType          |-> st.mimeType,
     lastAccessed      |-> clock,
     createdAt         |-> st.mapping.created_at,
     hasLocalCache     |-> 1]

\* Variant: the record keeps the mapping's old cloudreve_file_id.
RestoreRecordOldId(st, newCloudreveId, clock) ==
    [cloudreveFileId   |-> st.mapping.cloudreve_file_id,
     cloudreve_path    |-> st.path,
     telegramFileId    |-> st.mapping.telegram_file_id,
     telegramMessageId |-> st.mapping.telegram_message_id,
     fileName          |-> ProxyFileName(st.mapping),
     fileSize          |-> BufLen(st.buffer),
     mimeType          |-> st.mimeType,
     lastAccessed      |-> clock,
     createdAt         |-> st.mapping.created_at,
     hasLocalCache     |-> 1]

\* Variant: the record carries the last_accessed of the mapping as it was read
\* on entry.
RestoreRecordOldAccess(st, newCloudreveId, clock) ==
    [cloudreveFileId   |-> newCloudreveId,
     cloudreve_path    |-> st.path,
     telegramFileId    |-> st.mapping.telegram_file_id,
     telegramMessageId |-> st.mapping.telegram_message_id,
     fileName          |-> ProxyFileName(st.mapping),
     fileSize          |-> BufLen(st.buffer),
     mimeType          |-> st.mimeType,
     lastAccessed      |-> st.mapping.last_accessed,
     createdAt         |-> st.mapping.created_at,
     hasLocalCache     |-> 1]

\* The record downloadProxy passes to db.upsertMapping after a restore.
RestoreRecord(st, newCloudreveId, clock) ==
    [cloudreveFileId   |-> newCloudreveId,
     cloudreve_path    |-> st.path,
     telegramFileId    |-> st.mapping.telegram_file_id,
     telegramMessageId |-> st.mapping.telegram_message_id,
     fileName          |-> ProxyFileName(st.mapping),
     fileSize          |-> BufLen(st.buffer),
     mimeType          |-> st.mimeType,
     lastAccessed      |-> clock,
     createdAt         |-> st.mapping.created_at,
     hasLocalCache     |-> 1]

\* Variant: the result carries mapping.file_name as it is, without the default.
ProxyResultRawName(st) ==
    [NoResult EXCEPT !.buffer = st.buffer,
                     !.fileName = st.mapping.file_name,
                     !.mimeType = st.mimeType]

\* What the restore path of downloadProxy returns.
ProxyResult(st) ==
    [NoResult EXCEPT !.buffer = st.buffer,
                     !.fileName = ProxyFileName(st.mapping),
                     !.mimeType = st.mimeType]

\* Case B: cloudreve.uploadFile returns the new file id: the mapping is upserted
\* and the bytes are returned.
ProxyUploaded(t) ==
    /\ tasks[t].pc = "p_upload"
    /\ nextCrId <= Len(InboxNames) + MaxCrUploads
    /\ LET st == tasks[t]
       IN  /\ crFiles' = CrPut(crFiles, st.path, nextCrId, ProxyFileName(st.mapping),
                                st.buffer, st.mimeType)
           /\ nextCrId' = nextCrId + 1
           /\ table' = upsertMapping(table, RestoreRecord(st, nextCrId, now), now)
           /\ Step(t, Returns(st, ProxyResult(st)))
    /\ UNCHANGED <<tgStore, now, idleSecs>>

\* Variant: the upload's error is not caught and downloadProxy rejects with it.
ProxyUploadRethrows(t) ==
    /\ tasks[t].pc = "p_upload"
    /\ LET st == tasks[t]
       IN  /\ table' = markEvicted(table, st.path)
           /\ Step(t, Throws(st, 500, <<"Cloudreve upload failed">>))
    /\ UNCHANGED <<crFiles, nextCrId, tgStore, now, idleSecs>>

\* Case B: cloudreve.uploadFile throws: the mapping is marked evicted and the
\* bytes are returned all the same.
ProxyUploadFailed(t) ==
    /\ tasks[t].pc = "p_upload"
    /\ LET st == tasks[t]
       IN  /\ table' = markEvicted(table, st.path)
           /\ Step(t, Returns(st, ProxyResult(st)))
    /\ UNCHANGED <<crFiles, nextCrId, tgStore, now, idleSecs>>

----------------------------------------------------------------------------
(* sync.js: importFromTelegram *)

UnsafeChars == {"/", "\\", ":", "*", "?", "\"", "<", ">", "|"}
SpaceChars  == {" ", "\t", "\n"}
MaxNameLen  == 200

\* .replace(/[/\\:*?"<>|]/g, '_')
ReplaceUnsafe(name) ==
    [i \in 1..Len(name) |-> IF name[i] \in UnsafeChars THEN "_" ELSE name[i]]

\* .replace(/\s+/g, '_'): each run of white space becomes one underscore
RECURSIVE CollapseSpace(_)
CollapseSpace(name) ==
    IF name = <<>> THEN <<>>
    ELSE IF Head(name) \in SpaceChars
         THEN IF Len(name) > 1 /\ name[2] \in SpaceChars
              THEN CollapseSpace(Tail(name))
              ELSE <<"_">> \o CollapseSpace(Tail(name))
         ELSE <<Head(name)>> \o CollapseSpace(Tail(name))

\* String(name || 'file') ... .slice(0, 200)
sanitizeFileName(name) ==
    LET s == CollapseSpace(ReplaceUnsafe(OrName(name, <<"f", "i", "l", "e">>)))
    IN  SubSeq(s, 1, IF Len(s) < MaxNameLen THEN Len(s) ELSE MaxNameLen)

\* `${baseUrl}/s${filePath}`
buildCloudreveLink(baseUrl, filePath) == <<baseUrl, "/s">> \o PathText(filePath)

\* The updates the bot hands to importFromTelegram.
ImportReqs ==
    { [telegramFileId |-> 1, telegramMessageId |-> 7,
       fileName |-> <<"b", " ", " ">>, mimeType |-> NullStr, fileSize |-> 0],
      [telegramFileId |-> 1, telegramMessageId |-> 7,
       fileName |-> <<"b", "/">>, mimeType |-> "image/png", fileSize |-> 5],
      [telegramFileId |-> 1, telegramMessageId |-> 8,
       fileName |-> <<"a">>, mimeType |-> NullStr, fileSize |-> 0] }

ImportDest(req) == JoinPath(InboxPath, sanitizeFileName(req.fileName))

ImportResult(dest, tgFileId) ==
    [NoResult EXCEPT !.cloudreve_path = dest, !.tgFileId = tgFileId,
                     !.directLink = buildCloudreveLink(BaseUrl, dest)]

\* Variant: the early return carries the telegramFileId of the call, not the
\* one of the existing mapping.
ImportExistingOwnId(t, req) ==
    /\ CanStart(t)
    /\ getMappingByPath(table, ImportDest(req)) # NoRow
    /\ LET dest == ImportDest(req)
           st == [IdleTask EXCEPT !.kind = "import", !.req = req, !.path = dest]
       IN  Step(t, Returns(st, ImportResult(dest, req.telegramFileId)))
    /\ UNCHANGED <<table, crFiles, nextCrId, tgStore, now, idleSecs>>

\* importFromTelegram(opts) is called and a mapping exists at the destination:
\* it returns the existing mapping's telegram_file_id at once.
ImportExisting(t, req) ==
    /\ CanStart(t)
    /\ getMappingByPath(table, ImportDest(req)) # NoRow
    /\ LET dest == ImportDest(req)
           st == [IdleTask EXCEPT !.kind = "import", !.req = req, !.path = dest]
       IN  Step(t, Returns(st,
                ImportResult(dest, getMappingByPath(table, dest).telegram_file_id)))
    /\ UNCHANGED <<table, crFiles, nextCrId, tgStore, now, idleSecs>>

\* importFromTelegram(opts) is called and the destination has no mapping: the
\* inbox directory is ensured and telegram.downloadFile is awaited.
ImportStart(t, req) ==
    /\ CanStart(t)
    /\ getMappingByPath(table, ImportDest(req)) = NoRow
    /\ Step(t, [IdleTask EXCEPT !.kind = "import", !.req = req,
                                !.path = ImportDest(req), !.pc = "i_tgdownload",
                                !.calls = <<"cloudreve.createDirectory",
                                            "telegram.downloadFile">>])
    /\ UNCHANGED <<table, crFiles, nextCrId, tgStore, now, idleSecs>>

\* telegram.downloadFile returns {buffer, mimeType}: the upload is started.
ImportTgDownloaded(t) ==
    /\ tasks[t].pc = "i_tgdownload"
    /\ LET st  == tasks[t]
           fid == st.req.telegramFileId
       IN  /\ TgHasId(tgStore, fid)
           /\ Step(t, [st EXCEPT
                    !.pc = "i_upload",
                    !.buffer = tgStore[fid].data,
                    !.mimeType = OrStr(st.req.mimeType,
                                       OrStr(tgStore[fid].ctype, DefaultMime)),
                    !.calls = Append(st.calls, "cloudreve.uploadFile")])
    /\ UNCHANGED <<table, crFiles, nextCrId, tgStore, now, idleSecs>>

\* telegram.downloadFile throws: importFromTelegram rejects with that error.
ImportTgDownloadFailed(t) ==
    /\ tasks[t].pc = "i_tgdownload"
    /\ \E msg \in TgDownloadErrors(tasks[t].req.telegramFileId) :
            Step(t, Throws(tasks[t], 500, msg))
    /\ UNCHANGED <<table, crFiles, nextCrId, tgStore, now, idleSecs>>

\* The record importFromTelegram passes to db.upsertMapping.
ImportRecord(st, cloudreveFileId, clock) ==
    [cloudreveFileId   |-> cloudreveFileId,
     cloudreve_path    |-> st.path,
     telegramFileId    |-> st.req.telegramFileId,
     telegramMessageId |-> st.req.telegramMessageId,
     fileName          |-> Basename(st.path),
     fileSize          |-> OrNum(st.req.fileSize, BufLen(st.buffer)),
     mimeType          |-> st.mimeType,
     lastAccessed      |-> clock,
     createdAt         |-> clock,
     hasLocalCache     |-> 1]

\* cloudreve.uploadFile returns the file id: the mapping is written and
\* {cloudreve_path, tgFileId, directLink} is returned.
ImportUploaded(t) ==
    /\ tasks[t].pc = "i_upload"
    /\ nextCrId <= Len(InboxNames) + MaxCrUploads
    /\ LET st == tasks[t]
       IN  /\ crFiles' = CrPut(crFiles, st.path, nextCrId, Basename(st.path),
                                st.buffer, st.mimeType)
           /\ nextCrId' = nextCrId + 1
           /\ table' = upsertMapping(table, ImportRecord(st, nextCrId, now), now)
           /\ Step(t, Returns(st, ImportResult(st.path, st.req.telegramFileId)))
    /\ UNCHANGED <<tgStore, now, idleSecs>>

\* Variant: the mapping is written before the upload is known to have succeeded.
ImportUploadFailedKeepsMapping(t) ==
    /\ tasks[t].pc = "i_upload"
    /\ table' = upsertMapping(table, ImportRecord(tasks[t], NoId, now), now)
    /\ Step(t, Throws(tasks[t], 500,
                      <<"Cloudreve chunk upload failed (", "500", "): ">>))
    /\ UNCHANGED <<crFiles, nextCrId, tgStore, now, idleSecs>>

\* cloudreve.uploadFile throws: importFromTelegram rejects with that error.
ImportUploadFailed(t) ==
    /\ tasks[t].pc = "i_upload"
    /\ Step(t, Throws(tasks[t], 500,
                      <<"Cloudreve chunk upload failed (", "500", "): ">>))
    /\ UNCHANGED <<table, crFiles, nextCrId, tgStore, now, idleSecs>>

----------------------------------------------------------------------------
(* cache.js: runEviction *)

\* The loop of runEviction at position i of the stale list: await deleteFile
\* for that entry, or return {evicted, errors} when the list is exhausted.
EvictLoop(st, i) ==
    IF i > Len(st.files)
    THEN Returns([st EXCEPT !.idx = i],
                 [NoResult EXCEPT !.evicted = st.synced, !.errors = st.errors])
    ELSE [st EXCEPT !.idx = i, !.pc = "e_delete",
                    !.calls = Append(st.calls, "cloudreve.deleteFile")]

\* runEviction() is called: the stale entries are read; with none it returns
\* {evicted: 0, errors: 0}, otherwise the loop is entered.
EvictStart(t) ==
    /\ CanStart(t)
    /\ Step(t, EvictLoop([IdleTask EXCEPT
                            !.kind = "evict",
                            !.files = getStaleEntries(table, idleSecs, now)], 1))
    /\ UNCHANGED <<table, crFiles, nextCrId, tgStore, now, idleSecs>>

\* cloudreve.deleteFile returns: the entry is marked evicted, evicted++.
EvictDeleted(t) ==
    /\ tasks[t].pc = "e_delete"
    /\ LET st == tasks[t]
           p  == st.files[st.idx].cloudreve_path
       IN  /\ crFiles' = CrDelete(crFiles, p)
           /\ table' = markEvicted(table, p)
           /\ Step(t, EvictLoop([st EXCEPT !.synced = st.synced + 1], st.idx + 1))
    /\ UNCHANGED <<nextCrId, tgStore, now, idleSecs>>

\* Variant: markEvicted is called before the delete is known to have succeeded.
EvictDeleteFailedMarks(t) ==
    /\ tasks[t].pc = "e_delete"
    /\ LET st == tasks[t]
       IN  /\ table' = markEvicted(table, st.files[st.idx].cloudreve_path)
           /\ Step(t, EvictLoop([st EXCEPT !.errors = st.errors + 1], st.idx + 1))
    /\ UNCHANGED <<crFiles, nextCrId, tgStore, now, idleSecs>>

\* cloudreve.deleteFile throws: errors++ and the loop goes on.
EvictDeleteFailed(t) ==
    /\ tasks[t].pc = "e_delete"
    /\ LET st == tasks[t]
       IN  Step(t, EvictLoop([st EXCEPT !.errors = st.errors + 1], st.idx + 1))
    /\ UNCHANGED <<table, crFiles, nextCrId, tgStore, now, idleSecs>>

----------------------------------------------------------------------------
(* The system *)

\* A second passes.
Tick ==
    /\ now < MaxClock
    /\ now' = now + 1
    /\ UNCHANGED <<table, crFiles, nextCrId, tgStore, idleSecs, tasks, started,
                   sequential, history>>

\* The inbox files a user has uploaded to the primary store, with the ids and
\* the content types the primary store gives them.
UserFile(i) ==
    [fileId |-> i,
     name   |-> InboxNames[i],
     data   |-> IF i = 1 THEN "dA" ELSE "dB",
     ctype  |-> IF i = 1 THEN "text/plain" ELSE NullStr]

\* The inbox as the users left it: the files of `present`.
UserFiles(present) ==
    [p \in Paths |->
        LET i == CHOOSE k \in 1..Len(InboxNames) :
                     p = JoinPath(InboxPath, InboxNames[k])
        IN  IF i \in present THEN UserFile(i) ELSE NoFile]

\* The table an earlier run of the process left in the database file after
\* syncNewUploads backed up the first inbox file at time 1.
SyncedTable(present) ==
    LET files == SelectSeq(listDirectory(UserFiles(present), InboxPath),
                           LAMBDA o : o.type = "file")
        st    == [IdleTask EXCEPT !.kind = "sync", !.path = <<InboxPath>>,
                                  !.files = files, !.idx = 1,
                                  !.buffer = UserFile(1).data,
                                  !.mimeType = OrStr(UserFile(1).ctype, DefaultMime)]
    IN  upsertMapping(<<>>, SyncRecord(st, Len(BotFiles) + 1, 1), 1)

\* The state the process starts in.  initDb creates the table only if it does
\* not exist, so the database file is either new (db = "new") or the one an
\* earlier run left: with the first inbox file backed up (db = "synced"), or
\* backed up and then evicted by runEviction (db = "evicted").
InitStores(present, db) ==
    LET pathA == JoinPath(InboxPath, InboxNames[1]) IN
    /\ table = CASE db = "new"     -> <<>>
                 [] db = "synced"  -> SyncedTable(present)
                 [] db = "evicted" -> markEvicted(SyncedTable(present), pathA)
    /\ crFiles = IF db = "evicted" THEN CrDelete(UserFiles(present), pathA)
                 ELSE UserFiles(present)
    /\ nextCrId = Len(InboxNames) + 1
    /\ tgStore = IF db = "new" THEN BotFiles
                 ELSE TgPut(BotFiles, UserFile(1).data,
                            OrStr(UserFile(1).ctype, DefaultMime), pathA)
    /\ now = IF db = "evicted" THEN 2 + idleSecs ELSE 1
    /\ tasks = [t \in Tasks |-> IdleTask]
    /\ started = 0
    /\ history = <<>>

DbFiles == {"new", "synced", "evicted"}

\* The process has started; requests arrive at any time.
Init ==
    /\ idleSecs \in 0..MaxIdle
    /\ \E present \in {{1}, {1, 2}}, db \in DbFiles : InitStores(present, db)
    /\ sequential = FALSE

\* The same, with a caller that awaits each invocation before making the next.
InitSeq ==
    /\ idleSecs \in 0..MaxIdle
    /\ \E present \in {{1}, {1, 2}}, db \in DbFiles : InitStores(present, db)
    /\ sequential = TRUE

Next ==
    \/ Tick
    \/ \E t \in Tasks :
        \/ SyncStart(t)
        \/ SyncListed(t)
        \/ SyncListFailed(t)
        \/ SyncDownloaded(t)
        \/ SyncDownloadFailed(t)
        \/ SyncUploaded(t)
        \/ SyncUploadFailed(t)
        \/ \E p \in Paths : ProxyNotFound(t, p)
        \/ \E p \in Paths : ProxyStart(t, p)
        \/ ProxyHit(t)
        \/ ProxyHitFailed(t)
        \/ ProxyTgDownloaded(t)
        \/ ProxyTgDownloadFailed(t)
        \/ ProxyUploaded(t)
        \/ ProxyUploadFailed(t)
        \/ \E req \in ImportReqs : ImportExisting(t, req)
        \/ \E req \in ImportReqs : ImportStart(t, req)
        \/ ImportTgDownloaded(t)
        \/ ImportTgDownloadFailed(t)
        \/ ImportUploaded(t)
        \/ ImportUploadFailed(t)
        \/ EvictStart(t)
        \/ EvictDeleted(t)
        \/ EvictDeleteFailed(t)

Spec    == Init /\ [][Next]_vars
SpecSeq == InitSeq /\ [][Next]_vars

----------------------------------------------------------------------------
(* The mapping store on its own: db.js called directly, as its unit tests do *)

\* The records handed to upsertMapping; -1 is a field left out.
UpsertRecs ==
    [cloudreveFileId : {1}, cloudreve_path : Paths, telegramFileId : {1, 2},
     telegramMessageId : {NoId}, fileName : {NameA}, fileSize : {1},
     mimeType : {"text/plain"}, lastAccessed : {-1, now}, createdAt : {-1, now},
     hasLocalCache : {-1, 0}]

NoRec == [cloudreveFileId |-> NoId, cloudreve_path |-> NoPath,
          telegramFileId |-> NoId, telegramMessageId |-> NoId,
          fileName |-> NoName, fileSize |-> 0, mimeType |-> NullStr,
          lastAccessed |-> -1, createdAt |-> -1, hasLocalCache |-> -1]

\* One direct call of the db module.  `history` keeps the latest call: its
\* name, its arguments and the row the path had before.
DbCall(kind, p, rec) ==
    /\ started < MaxOps
    /\ started' = started + 1
    /\ history' = <<[kind |-> kind, path |-> p, rec |-> rec,
                     before |-> getMappingByPath(table, p)]>>
    /\ UNCHANGED <<crFiles, nextCrId, tgStore, now, idleSecs, tasks, sequential>>

DbUpsert(rec) ==
    /\ table' = upsertMapping(table, rec, now)
    /\ DbCall("upsertMapping", rec.cloudreve_path, rec)

DbTouch(p) ==
    /\ table' = touchMapping(table, p, now)
    /\ DbCall("touchMapping", p, NoRec)

DbMarkEvicted(p) ==
    /\ table' = markEvicted(table, p)
    /\ DbCall("markEvicted", p, NoRec)

DbMarkCached(p) ==
    /\ table' = markCached(table, p, now)
    /\ DbCall("markCached", p, NoRec)

\* The thresholds getStaleEntries is called with.
Thresholds == 0..(MaxIdle + 1)

\* getStaleEntries(thresholdSeconds) called directly: `history` keeps the
\* argument, the time of the call and the rows returned.
DbListStale(thresholdSeconds) ==
    /\ started < MaxOps
    /\ started' = started + 1
    /\ history' = <<[kind |-> "getStaleEntries",
                     thresholdSeconds |-> thresholdSeconds, at |-> now,
                     out |-> getStaleEntries(table, thresholdSeconds, now)]>>
    /\ UNCHANGED <<table, crFiles, nextCrId, tgStore, now, idleSecs, tasks,
                   sequential>>

NextDb ==
    \/ Tick
    \/ \E rec \in UpsertRecs : DbUpsert(rec)
    \/ \E thresholdSeconds \in Thresholds : DbListStale(thresholdSeconds)
    \/ \E p \in Paths : DbTouch(p)
    \/ \E p \in Paths : DbMarkEvicted(p)
    \/ \E p \in Paths : DbMarkCached(p)

InitDb ==
    /\ idleSecs = 0
    /\ \E db \in DbFiles : InitStores({1}, db)
    /\ sequential = TRUE

SpecDb == InitDb /\ [][NextDb]_vars

----------------------------------------------------------------------------
(* index.js: the periodic poll on its own *)

\* The slot the poll timer's passes run in.
Poller == "t1"

\* The state a pass is in once syncNewUploads() has been called.
PollPass ==
    [IdleTask EXCEPT !.kind = "sync", !.pc = "s_list", !.path = <<InboxPath>>,
                     !.calls = <<"cloudreve.createDirectory",
                                 "cloudreve.listDirectory">>]

\* Variant: a timer that fires once (setTimeout in place of setInterval).
PollFireOnce ==
    /\ tasks[Poller].pc = "idle"
    /\ tasks' = [tasks EXCEPT ![Poller] = PollPass]
    /\ UNCHANGED <<table, crFiles, nextCrId, tgStore, now, idleSecs, started,
                   sequential, history>>

\* The setInterval callback fires and calls syncNewUploads(); a rejection is
\* caught and logged.  The timer fires for as long as the process runs, so its
\* passes are not counted in `started`; a pass is over well before the next
\* firing (the interval is in minutes).
PollFire ==
    /\ ~InFlight(Poller)
    /\ tasks' = [tasks EXCEPT ![Poller] = PollPass]
    /\ UNCHANGED <<table, crFiles, nextCrId, tgStore, now, idleSecs, started,
                   sequential, history>>

\* The pass of the poller is at listed file j.
PollerAt(j) == tasks[Poller].idx = j

NextLive ==
    \/ Tick
    \/ PollFire
    \/ SyncListed(Poller)
    \/ SyncListFailed(Poller)
    \/ SyncDownloaded(Poller)
    \/ SyncDownloadFailed(Poller)
    \/ SyncUploaded(Poller)
    \/ SyncUploadFailed(Poller)

\* The timer keeps firing, and each store call that is made again and again
\* for a file succeeds at some time.
FairLive ==
    /\ WF_vars(PollFire)
    /\ SF_vars(SyncListed(Poller))
    /\ \A j \in 1..Len(InboxNames) :
        /\ SF_vars(PollerAt(j) /\ SyncDownloaded(Poller))
        /\ SF_vars(PollerAt(j) /\ SyncUploaded(Poller))

SpecLive == Init /\ [][NextLive]_vars /\ FairLive

----------------------------------------------------------------------------
(* routes.js: the admin routes behind requireWebhookSecret *)

\* The values WEBHOOK_SECRET may have in the environment ("" = not set), and
\* the values a request may carry in X-Webhook-Secret ("" = no header).
Secrets  == {NullStr, "s3cret"}
Provided == {NullStr, "s3cret", "guess"}

\* Variant: a request without the header is let through.
requireWebhookSecretLenient(secret, provided) ==
    IF secret = NullStr THEN "next"
    ELSE IF provided # secret /\ provided # NullStr THEN "401"
    ELSE "next"

\* requireWebhookSecret(req, res, next): "next" when the handler is called,
\* "401" when the middleware answers itself.
requireWebhookSecret(secret, provided) ==
    IF secret = NullStr THEN "next"
    ELSE IF provided # secret THEN "401"
    ELSE "next"

\* getConfig() reads the environment at its first call and caches the result:
\* every request sees the secret the first one saw.
ConfigSeen(secret) == \A i \in 1..Len(history) : history[i].secret = secret

\* One HTTP exchange in the log: the route, the configured secret, the header,
\* the status answered so far (0: none yet), whether the handler ran, and the
\* number of rows read from the table (-1: no read).
Exchange(route, secret, provided, status, handled, total) ==
    [route |-> route, secret |-> secret, provided |-> provided,
     status |-> status, handled |-> handled, total |-> total]

\* The middleware answers 401: the handler is not called.
Rejected(route, secret, provided) ==
    /\ requireWebhookSecret(secret, provided) = "401"
    /\ history' = Append(history, Exchange(route, secret, provided, 401, FALSE, -1))
    /\ started' = started + 1
    /\ UNCHANGED <<table, crFiles, nextCrId, tgStore, now, idleSecs, tasks,
                   sequential>>

\* The handler is called and starts invocation st in slot t.
Handled(route, secret, provided, status, t, st) ==
    /\ requireWebhookSecret(secret, provided) = "next"
    /\ history' = Append(history, Exchange(route, secret, provided, status, TRUE, -1))
    /\ started' = started + 1
    /\ tasks' = [tasks EXCEPT ![t] = st]
    /\ UNCHANGED <<table, crFiles, nextCrId, tgStore, now, idleSecs, sequential>>

\* GET /api/mappings
HttpMappings(secret, provided) ==
    /\ started < MaxOps /\ ~InFlight(Poller) /\ ConfigSeen(secret)
    /\ \/ Rejected("/api/mappings", secret, provided)
       \/ /\ requireWebhookSecret(secret, provided) = "next"
          /\ history' = Append(history,
                Exchange("/api/mappings", secret, provided, 200, TRUE, Len(table)))
          /\ started' = started + 1
          /\ UNCHANGED <<table, crFiles, nextCrId, tgStore, now, idleSecs, tasks,
                         sequential>>

\* POST /api/sync: the handler awaits syncNewUploads(dir).
HttpSync(t, secret, provided) ==
    /\ CanStart(t) /\ ConfigSeen(secret)
    /\ \/ Rejected("/api/sync", secret, provided)
       \/ Handled("/api/sync", secret, provided, 0, t, PollPass)

\* POST /api/evict: the handler awaits runEviction().
HttpEvict(t, secret, provided) ==
    /\ CanStart(t) /\ ConfigSeen(secret)
    /\ \/ Rejected("/api/evict", secret, provided)
       \/ Handled("/api/evict", secret, provided, 0, t,
                  EvictLoop([IdleTask EXCEPT
                                !.kind = "evict",
                                !.files = getStaleEntries(table, idleSecs, now)], 1))

\* The bodies POST /cloudreve/webhook is called with: no path, or a file's path.
WebhookBodies == {NoPath} \cup Paths

\* POST /cloudreve/webhook: 400 without a path; otherwise 200 at once and
\* syncNewUploads(dir) is started and not awaited.
HttpWebhook(t, secret, provided, filePath) ==
    /\ CanStart(t) /\ ConfigSeen(secret)
    /\ \/ Rejected("/cloudreve/webhook", secret, provided)
       \/ /\ filePath = NoPath
          /\ requireWebhookSecret(secret, provided) = "next"
          /\ history' = Append(history,
                Exchange("/cloudreve/webhook", secret, provided, 400, TRUE, -1))
          /\ started' = started + 1
          /\ UNCHANGED <<table, crFiles, nextCrId, tgStore, now, idleSecs, tasks,
                         sequential>>
       \/ /\ filePath # NoPath
          /\ Handled("/cloudreve/webhook", secret, provided, 200, t,
                     [PollPass EXCEPT !.path = <<Dirname(filePath)>>])

\* The requests are made one after the other: each pass runs in the first slot.
NextHttp ==
    \/ Tick
    \/ \E secret \in Secrets, provided \in Provided :
        \/ HttpMappings(secret, provided)
        \/ HttpSync(Poller, secret, provided)
        \/ HttpEvict(Poller, secret, provided)
        \/ \E filePath \in WebhookBodies :
                HttpWebhook(Poller, secret, provided, filePath)
    \/ SyncListed(Poller)
    \/ SyncListFailed(Poller)
    \/ SyncDownloaded(Poller)
    \/ SyncDownloadFailed(Poller)
    \/ SyncUploaded(Poller)
    \/ SyncUploadFailed(Poller)
    \/ EvictDeleted(Poller)
    \/ EvictDeleteFailed(Poller)

\* The process has started with both inbox files in the primary store.
InitHttp ==
    /\ idleSecs \in 0..MaxIdle
    /\ \E db \in {"new", "synced"} : InitStores({1, 2}, db)
    /\ sequential = FALSE

SpecHttp == InitHttp /\ [][NextHttp]_vars

----------------------------------------------------------------------------
(* Claims *)

Quiescent == \A t \in Tasks : ~InFlight(t)
HasMapping(tbl, p) == getMappingByPath(tbl, p) # NoRow

\* The uploads the secondary store has received for path p: sync sends each
\* file with the caption `Synced from Cloudreve: ${filePath}`.
UploadsFor(p) == {i \in 1..Len(tgStore) : tgStore[i].caption = p}

\* C1: whatever the interleaving of concurrent syncNewUploads invocations over
\* the same directory, at most one secondary-store upload is made for a path
\* that had no mapping at the start.
C1_AtMostOneUploadPerPath ==
    \A p \in Paths : Cardinality(UploadsFor(p)) <= 1

\* The Telegram CDN URL of some file occurs in the text.
HasCdnUrl(text) ==
    \E fid \in 1..(Len(BotFiles) + MaxTgUploads) :
        Contains(text, cdnUrl(TgFilePath(fid)))

\* What the caller of a finished invocation receives: the HTTP route sends the
\* bytes, the file name and the MIME type, or err.message in its JSON body; the
\* bot sends the path and the link.
CallerSees(res) ==
    {res.message, res.fileName, res.directLink, <<res.buffer>>, <<res.mimeType>>}
    \cup (IF res.cloudreve_path = NoPath THEN {}
          ELSE {PathText(res.cloudreve_path)})

\* C2: no value that reaches an external caller contains the Telegram CDN URL:
\* not what downloadProxy returns, not the message of the error a failed
\* downloadProxy throws (the route puts it in its JSON body), and not the path
\* or link importFromTelegram returns.
C2_NoCdnUrlReachesCaller ==
    \A t \in Tasks :
        (/\ tasks[t].pc = "done"
         /\ \/ tasks[t].kind = "proxy"
            \/ tasks[t].kind = "import" /\ tasks[t].result.ok)
            => \A text \in CallerSees(tasks[t].result) : ~HasCdnUrl(text)

\* C3: when nothing is in flight, a mapping has has_local_cache = 1 exactly
\* when the primary store holds a file at the mapping's path.
C3_CachedIffPrimaryCopy ==
    Quiescent =>
        \A i \in 1..Len(table) :
            (table[i].has_local_cache = 1)
                <=> (crFiles[table[i].cloudreve_path] # NoFile)

\* C4: once a path has a mapping, no step changes its telegram_file_id.
C4_SecondaryIdImmutable ==
    [][\A p \in Paths :
          HasMapping(table, p) =>
              getMappingByPath(table', p).telegram_file_id
                  = getMappingByPath(table, p).telegram_file_id]_vars

\* The invocation in slot t is in the restore path of downloadProxy, waiting
\* for cloudreve.uploadFile, and this step ends the wait.
RestoreUploadEnds(t) ==
    /\ tasks[t].kind = "proxy"
    /\ tasks[t].pc = "p_upload"
    /\ tasks'[t].pc # "p_upload"

\* MIME type and file name as the restore path resolves them.
ResolvedMime(m, tgMime) ==
    IF m.mime_type # NullStr THEN m.mime_type
    ELSE IF tgMime # NullStr THEN tgMime ELSE DefaultMime
ResolvedName(m) == IF m.file_name # NoName THEN m.file_name ELSE <<"f", "i", "l", "e">>

\* C5: for a mapping with has_local_cache = 0, when the Telegram download and
\* the Cloudreve upload both succeed, downloadProxy returns the bytes stored
\* under the mapping's telegram_file_id with the resolved name and MIME type,
\* and the mapping then has has_local_cache = 1 and the uploaded file's id.
C5_RestoreOnMiss ==
    [][\A t \in Tasks :
        (/\ RestoreUploadEnds(t)
         /\ tasks[t].mapping.has_local_cache = 0
         /\ nextCrId' # nextCrId)
        => LET m   == tasks[t].mapping
               p   == tasks[t].path
               obj == tgStore[m.telegram_file_id]
               res == tasks'[t].result
               row == getMappingByPath(table', p)
           IN  /\ tasks'[t].pc = "done" /\ res.ok
               /\ res.buffer = obj.data
               /\ res.fileName = ResolvedName(m)
               /\ res.mimeType = ResolvedMime(m, obj.ctype)
               /\ row.has_local_cache = 1
               /\ row.cloudreve_file_id = nextCrId
               /\ crFiles'[p].fileId = nextCrId
               /\ crFiles'[p].data = obj.data]_vars

\* A finished downloadProxy that went straight to the restore path (the mapping
\* was not cached), uploaded, and left the mapping cached under the new file id.
C5_Witness ==
    \E t \in Tasks :
        /\ tasks[t].kind = "proxy" /\ tasks[t].pc = "done" /\ tasks[t].result.ok
        /\ tasks[t].calls = <<"telegram.downloadFile", "cloudreve.createDirectory",
                              "cloudreve.uploadFile">>
        /\ getMappingByPath(table, tasks[t].path).has_local_cache = 1
        /\ getMappingByPath(table, tasks[t].path).cloudreve_file_id > Len(InboxNames)
        /\ tasks[t].result.buffer = "dA"

\* C6: when the Cloudreve upload of the restore path fails, downloadProxy still
\* returns the bytes fetched from Telegram, and the mapping then has
\* has_local_cache = 0.
C6_RestoreUploadFails ==
    [][\A t \in Tasks :
        (RestoreUploadEnds(t) /\ nextCrId' = nextCrId /\ crFiles' = crFiles)
        => LET m   == tasks[t].mapping
               res == tasks'[t].result
           IN  /\ tasks'[t].pc = "done" /\ res.ok
               /\ res.buffer = tgStore[m.telegram_file_id].data
               /\ getMappingByPath(table', tasks[t].path).has_local_cache = 0]_vars

\* A finished downloadProxy that returned the bytes although its upload failed:
\* the primary store got no new file and the mapping is not cached.
C6_Witness ==
    \E t \in Tasks :
        /\ tasks[t].kind = "proxy" /\ tasks[t].pc = "done" /\ tasks[t].result.ok
        /\ tasks[t].result.buffer = "dA"
        /\ tasks[t].calls # <<>>
        /\ tasks[t].calls[Len(tasks[t].calls)] = "cloudreve.uploadFile"
        /\ nextCrId = Len(InboxNames) + 1
        /\ getMappingByPath(table, tasks[t].path).has_local_cache = 0

\* C7, as claimed: downloadProxy fails only with NotFound (404).
C7_OnlyNotFoundFails ==
    \A t \in Tasks :
        (tasks[t].kind = "proxy" /\ tasks[t].pc = "done" /\ ~tasks[t].result.ok)
            => tasks[t].result.status = 404

\* C7, amended: on a path that has a mapping downloadProxy fails only when the
\* Telegram download fails (the last store call it made); no failure of a
\* Cloudreve call makes it fail.
C7_FailsOnlyOnSecondaryDownload ==
    \A t \in Tasks :
        (tasks[t].kind = "proxy" /\ tasks[t].pc = "done" /\ ~tasks[t].result.ok)
            => \/ tasks[t].result.status = 404 /\ tasks[t].calls = <<>>
               \/ /\ tasks[t].result.status = 500
                  /\ tasks[t].calls # <<>>
                  /\ tasks[t].calls[Len(tasks[t].calls)] = "telegram.downloadFile"

\* A downloadProxy that failed with 500 after the Cloudreve fetch of a cached
\* mapping had failed and the Telegram download failed too.
C7_Witness ==
    \E t \in Tasks :
        /\ tasks[t].kind = "proxy" /\ tasks[t].pc = "done" /\ ~tasks[t].result.ok
        /\ tasks[t].result.status = 500
        /\ tasks[t].calls = <<"cloudreve.downloadFile", "telegram.downloadFile">>

\* This step is the call of handler `kind` in slot t.
Invoked(t, kind) ==
    /\ t = FreeSlot
    /\ started' = started + 1
    /\ tasks'[t].kind = kind

\* C8: downloadProxy on a path with no mapping throws with status 404, makes no
\* store call and leaves the mapping table (and both stores) as they were.
C8_NotFound ==
    [][\A t \in Tasks :
        (Invoked(t, "proxy") /\ ~HasMapping(table, tasks'[t].path))
        => /\ tasks'[t].pc = "done"
           /\ ~tasks'[t].result.ok
           /\ tasks'[t].result.status = 404
           /\ tasks'[t].calls = <<>>
           /\ table' = table
           /\ crFiles' = crFiles /\ nextCrId' = nextCrId /\ tgStore' = tgStore]_vars

\* A downloadProxy answered 404 while the other path has a mapping.
C8_Witness ==
    \E t \in Tasks :
        /\ tasks[t].kind = "proxy" /\ tasks[t].pc = "done"
        /\ tasks[t].result.status = 404
        /\ ~HasMapping(table, tasks[t].path)
        /\ Len(table) = 1

\* Two syncNewUploads runs, one after the other with nothing in between: the
\* sequential caller's history holds them side by side.
SyncTwice(i) ==
    /\ i \in 1..(Len(history) - 1)
    /\ history[i].kind = "sync"
    /\ history[i + 1].kind = "sync"
    /\ history[i + 1].result.ok

\* C9, as claimed: the second of two runs in sequence over an unchanged
\* directory returns synced = 0, whatever happened in the first.
C9_SecondSyncIdle ==
    \A i \in 1..Len(history) : SyncTwice(i) => history[i + 1].result.synced = 0

\* C9, amended: the second run returns synced = 0 when the first returned
\* errors = 0.
C9_SecondSyncIdleAfterCleanRun ==
    \A i \in 1..Len(history) :
        (SyncTwice(i) /\ history[i].result.ok /\ history[i].result.errors = 0)
            => history[i + 1].result.synced = 0

\* A first run that synced both files without error, then a second run that
\* listed them again and synced nothing.
C9_Witness ==
    \E i \in 1..Len(history) :
        /\ SyncTwice(i)
        /\ history[i].result.ok
        /\ history[i].result.errors = 0
        /\ history[i].result.synced = 2
        /\ history[i + 1].result.synced = 0
        /\ history[i + 1].calls = <<"cloudreve.createDirectory",
                                    "cloudreve.listDirectory">>

UniquePaths ==
    \A i, j \in 1..Len(table) :
        table[i].cloudreve_path = table[j].cloudreve_path => i = j

\* The row an upsert over an existing row must leave: the new values, with the
\* defaults of the fields the call left out, and the old id and created_at.
ExpectedAfterConflict(before, rec) ==
    [id                  |-> before.id,
     cloudreve_file_id   |-> rec.cloudreveFileId,
     cloudreve_path      |-> rec.cloudreve_path,
     telegram_file_id    |-> rec.telegramFileId,
     telegram_message_id |-> rec.telegramMessageId,
     file_name           |-> rec.fileName,
     file_size           |-> rec.fileSize,
     mime_type           |-> rec.mimeType,
     last_accessed       |-> IF rec.lastAccessed = -1 THEN 0 ELSE rec.lastAccessed,
     created_at          |-> before.created_at,
     has_local_cache     |-> IF rec.hasLocalCache = -1 THEN 1 ELSE rec.hasLocalCache]

\* C10: the table holds at most one row per path, and an upsert on a path that
\* has a row leaves that one row with the call's fields and the old created_at.
C10_UpsertOneRowPerPath ==
    /\ UniquePaths
    /\ \A k \in 1..Len(history) :
        (history[k].kind = "upsertMapping" /\ history[k].before # NoRow)
            => /\ Cardinality(RowsAt(table, history[k].path)) = 1
               /\ getMappingByPath(table, history[k].path)
                    = ExpectedAfterConflict(history[k].before, history[k].rec)

\* An upsert over a row that had another telegram_file_id and an older
\* created_at than the call passed.
C10_Witness ==
    /\ Len(history) = 1
    /\ history[1].kind = "upsertMapping"
    /\ history[1].before # NoRow
    /\ history[1].before.telegram_file_id # history[1].rec.telegramFileId
    /\ history[1].rec.createdAt > history[1].before.created_at
    /\ getMappingByPath(table, history[1].path).created_at
            = history[1].before.created_at

\* C11: the created_at of a mapping never changes once the row exists, whatever
\* handler or db call acts on the path.
C11_CreatedAtImmutable ==
    [][\A p \in Paths :
          HasMapping(table, p) =>
              getMappingByPath(table', p).created_at
                  = getMappingByPath(table, p).created_at]_vars

\* A mapping that a later upsert has gone over (a restore: its Cloudreve file id
\* is a new one) at a later time than its created_at.
C11_Witness ==
    \E i \in 1..Len(table) :
        /\ table[i].created_at < now
        /\ table[i].last_accessed = now
        /\ table[i].cloudreve_file_id > Len(InboxNames)
        /\ \E t \in Tasks :
            /\ tasks[t].kind = "proxy" /\ tasks[t].pc = "done" /\ tasks[t].result.ok
            /\ tasks[t].path = table[i].cloudreve_path
            /\ tasks[t].calls # <<>>
            /\ tasks[t].calls[Len(tasks[t].calls)] = "cloudreve.uploadFile"

\* C12: no step removes a mapping: a path that has a mapping keeps one, and the
\* table never loses a row.
C12_NoMappingRemoved ==
    [][/\ Len(table') >= Len(table)
       /\ \A p \in Paths : HasMapping(table, p) => HasMapping(table', p)]_vars

\* An eviction pass has deleted the Cloudreve copy of a file and returned; the
\* mapping of that path is still in the table, with has_local_cache = 0.
C12_Witness ==
    \E t \in Tasks, p \in Paths :
        /\ tasks[t].kind = "evict" /\ tasks[t].pc = "done"
        /\ tasks[t].result.evicted >= 1
        /\ HasMapping(table, p)
        /\ getMappingByPath(table, p).has_local_cache = 0
        /\ crFiles[p] = NoFile

\* C13: every mapping with has_local_cache = 0 has a telegram_file_id, and that
\* id names an object the Telegram channel holds.
C13_EvictedHasSecondaryCopy ==
    \A i \in 1..Len(table) :
        table[i].has_local_cache = 0
            => /\ table[i].telegram_file_id # NoId
               /\ TgHasId(tgStore, table[i].telegram_file_id)

\* A mapping that syncNewUploads created in this run (its object is the last
\* one the channel received) and that has has_local_cache = 0 since.
C13_Witness ==
    \E i \in 1..Len(table) :
        /\ table[i].has_local_cache = 0
        /\ table[i].created_at = 1
        /\ now > 1
        /\ started = MaxOps
        /\ table[i].telegram_file_id = Len(tgStore)
        /\ tgStore[Len(tgStore)].caption = table[i].cloudreve_path
        /\ tgStore[Len(tgStore)].data = "dB"

\* C14: getStaleEntries(T) returns exactly the rows with has_local_cache = 1,
\* last_accessed < now - T and last_accessed > 0: each of them once, and no
\* other row.
C14_ListStaleExact ==
    \A k \in 1..Len(history) :
        history[k].kind = "getStaleEntries" =>
            LET out    == history[k].out
                cutoff == history[k].at - history[k].thresholdSeconds
            IN  /\ \A i \in 1..Len(table) :
                        (\E j \in 1..Len(out) : out[j] = table[i])
                            <=> /\ table[i].has_local_cache = 1
                                /\ table[i].last_accessed < cutoff
                                /\ table[i].last_accessed > 0
                /\ \A j \in 1..Len(out) : \E i \in 1..Len(table) : out[j] = table[i]
                /\ \A j1, j2 \in 1..Len(out) : out[j1] = out[j2] => j1 = j2

\* A call that returned one of two cached rows: the other was never accessed
\* (last_accessed = 0) although it is below the cutoff.
C14_Witness ==
    /\ Len(history) = 1
    /\ history[1].kind = "getStaleEntries"
    /\ Len(table) = 2
    /\ Len(history[1].out) = 1
    /\ \E i \in 1..Len(table) :
        /\ table[i].has_local_cache = 1
        /\ table[i].last_accessed = 0
        /\ history[1].at - history[1].thresholdSeconds > 0

\* The store calls of kind `call` in a call log.
CallsOf(calls, call) == {i \in 1..Len(calls) : calls[i] = call}

\* Two importFromTelegram calls, one after the other, that resolve to the same
\* destination, the first of which returned.
ImportTwice(i) ==
    /\ i \in 1..(Len(history) - 1)
    /\ history[i].kind = "import"
    /\ history[i + 1].kind = "import"
    /\ history[i].path = history[i + 1].path
    /\ history[i].result.ok

\* C15: importFromTelegram called while the destination has a mapping makes no
\* store call, leaves the table and both stores as they were, and returns the
\* path with the telegram_file_id of that mapping; so of two calls in sequence
\* on one destination the second makes no call and returns what the first
\* returned, and the two make one download and one upload in all when the
\* first found no mapping.
C15_ImportIdempotent ==
    /\ [][\A t \in Tasks :
            (Invoked(t, "import") /\ HasMapping(table, tasks'[t].path))
            => /\ tasks'[t].pc = "done"
               /\ tasks'[t].result.ok
               /\ tasks'[t].calls = <<>>
               /\ table' = table
               /\ crFiles' = crFiles /\ nextCrId' = nextCrId /\ tgStore' = tgStore
               /\ tasks'[t].result.cloudreve_path = tasks'[t].path
               /\ tasks'[t].result.tgFileId
                    = getMappingByPath(table, tasks'[t].path).telegram_file_id]_vars
    /\ [](\A i \in 1..Len(history) :
            ImportTwice(i)
            => LET first  == history[i]
                   second == history[i + 1]
                   all    == first.calls \o second.calls
               IN  /\ second.result.ok
                   /\ second.calls = <<>>
                   /\ second.result.cloudreve_path = first.result.cloudreve_path
                   /\ second.result.tgFileId = first.result.tgFileId
                   /\ first.calls # <<>>
                        => /\ Cardinality(CallsOf(all, "telegram.downloadFile")) = 1
                           /\ Cardinality(CallsOf(all, "cloudreve.uploadFile")) = 1)

\* Two calls in sequence with different file names that sanitize to one
\* destination: the first downloaded and uploaded, the second made no call.
C15_Witness ==
    \E i \in 1..Len(history) :
        /\ ImportTwice(i)
        /\ history[i].req.fileName # history[i + 1].req.fileName
        /\ history[i].calls = <<"cloudreve.createDirectory", "telegram.downloadFile",
                                "cloudreve.uploadFile">>
        /\ history[i + 1].calls = <<>>
        /\ history[i + 1].result.tgFileId = history[i].result.tgFileId
        /\ Len(table) = 1

\* An eviction pass is in progress in slot t.
EvictionRunning(t) == tasks[t].kind = "evict" /\ InFlight(t)

\* C16: two eviction passes are never in progress at the same time.
C16_NoConcurrentEviction ==
    \A t1, t2 \in Tasks :
        (EvictionRunning(t1) /\ EvictionRunning(t2)) => t1 = t2

\* The path of the file at position j of a sync pass's listing.
SyncFilePath(st, j) == JoinPath(st.path[1], st.files[j].name)

\* The pass in slot t goes from the file at old.idx to the next file it takes
\* (or to its return): the files in between are those it skips, each of them
\* with a mapping when looked up; the next file taken has none.
SyncMovesOn(old, new, tbl) ==
    LET nextIdx == IF new.pc = "done" THEN Len(old.files) + 1 ELSE new.idx IN
    /\ nextIdx > old.idx
    /\ \A j \in (old.idx + 1)..(nextIdx - 1) : HasMapping(tbl, SyncFilePath(old, j))
    /\ new.pc # "done" =>
        /\ new.pc = "s_download"
        /\ new.files = old.files
        /\ new.idx <= Len(old.files)
        /\ ~HasMapping(tbl, SyncFilePath(old, new.idx))

\* The counters of the pass after the step: the local ones, or the returned ones.
SyncCounted(new) ==
    IF new.pc = "done" THEN [synced |-> new.result.synced, errors |-> new.result.errors]
    ELSE [synced |-> new.synced, errors |-> new.errors]

\* C17: in a syncNewUploads pass every listed file is taken once, in order: a
\* file with a mapping is skipped, a file without one adds one to synced or one
\* to errors (a failed download or upload adds to errors), and the pass goes on
\* to the later files and returns {synced, errors}; so synced + errors is the
\* number of files that had no mapping when looked up.
C17_SyncAccounting ==
    [][\A t \in Tasks :
        LET old == tasks[t]
            new == tasks'[t]
        IN  (old.kind = "sync" /\ InFlight(t) /\ new # old) =>
            /\ new.kind = "sync"
            /\ old.pc = "s_list" /\ new.pc # "done" =>
                /\ new.idx >= 1
                /\ SyncMovesOn([old EXCEPT !.files = new.files, !.idx = 0], new, table')
                /\ SyncCounted(new) = [synced |-> 0, errors |-> 0]
                /\ \A p \in Paths :
                    (crFiles[p] # NoFile)
                        <=> \E j \in 1..Len(new.files) : SyncFilePath(new, j) = p
            /\ old.pc = "s_download" /\ new.pc = "s_upload" =>
                /\ new.idx = old.idx /\ new.files = old.files
                /\ new.synced = old.synced /\ new.errors = old.errors
            /\ old.pc \in {"s_download", "s_upload"} /\ new.pc # "s_upload" =>
                /\ new.pc = "done" => new.result.ok
                /\ SyncMovesOn(old, new, table')
                /\ \/ /\ SyncCounted(new) = [synced |-> old.synced + 1,
                                             errors |-> old.errors]
                      /\ old.pc = "s_upload"
                      /\ HasMapping(table', SyncFilePath(old, old.idx))
                   \/ /\ SyncCounted(new) = [synced |-> old.synced,
                                             errors |-> old.errors + 1]
                      /\ table' = table]_vars

\* A pass over two files without mapping returned {synced: 1, errors: 1}: the
\* first file failed and the second was backed up all the same.
C17_Witness ==
    \E t \in Tasks :
        /\ tasks[t].kind = "sync" /\ tasks[t].pc = "done" /\ tasks[t].result.ok
        /\ tasks[t].result.synced = 1
        /\ tasks[t].result.errors = 1
        /\ ~HasMapping(table, JoinPath(InboxPath, InboxNames[1]))
        /\ HasMapping(table, JoinPath(InboxPath, InboxNames[2]))
        /\ Len(table) = 1

\* A finished syncNewUploads or runEviction pass in slot t.
PassDone(t) == tasks[t].kind \in {"sync", "evict"} /\ tasks[t].pc = "done"

\* C18, as claimed: syncNewUploads and runEviction always return their counts
\* and never throw, whichever store call fails.
C18_PassesNeverThrow ==
    \A t \in Tasks : PassDone(t) => tasks[t].result.ok

\* C18, amended: runEviction never throws, and syncNewUploads throws only when
\* the directory listing fails, before any file is taken; a failed download,
\* upload or delete is counted and the pass returns.
C18_PassesThrowOnlyOnListing ==
    \A t \in Tasks :
        (PassDone(t) /\ ~tasks[t].result.ok)
            => /\ tasks[t].kind = "sync"
               /\ tasks[t].calls = <<"cloudreve.createDirectory",
                                     "cloudreve.listDirectory">>

\* A pass over two files in which one download and one upload failed, and
\* which returned {synced: 0, errors: 2}.
C18_Witness ==
    \E t \in Tasks :
        /\ PassDone(t) /\ tasks[t].kind = "sync" /\ tasks[t].result.ok
        /\ tasks[t].result.synced = 0
        /\ tasks[t].result.errors = 2
        /\ Cardinality(CallsOf(tasks[t].calls, "telegram.uploadFile")) = 1
        /\ Cardinality(CallsOf(tasks[t].calls, "cloudreve.downloadFile")) = 2

\* The rows the table holds that are stale at time `clock` for threshold T.
StaleNow(tbl, T, clock) ==
    {i \in 1..Len(tbl) : /\ tbl[i].has_local_cache = 1
                         /\ tbl[i].last_accessed < clock - T
                         /\ tbl[i].last_accessed > 0}

\* The counters an eviction pass has after the step: local or returned.
EvictCounted(new) ==
    IF new.pc = "done" THEN [evicted |-> new.result.evicted, errors |-> new.result.errors]
    ELSE [evicted |-> new.synced, errors |-> new.errors]

\* C19: runEviction takes the stale entries one by one.  A delete that
\* succeeds marks the mapping has_local_cache = 0 and adds one to evicted; one
\* that fails leaves the mapping as it is and adds one to errors; either way
\* the pass goes on to the next entry and returns when the list is done, with
\* evicted + errors = the number of stale entries.  With no stale entry it
\* returns {evicted: 0, errors: 0} at once and makes no store call.
C19_EvictionAccounting ==
    [][\A t \in Tasks :
        LET old == tasks[t]
            new == tasks'[t]
        IN  /\ Invoked(t, "evict") =>
                LET stale == StaleNow(table, idleSecs, now) IN
                /\ table' = table /\ crFiles' = crFiles
                /\ stale = {} =>
                    /\ new.pc = "done" /\ new.result.ok
                    /\ EvictCounted(new) = [evicted |-> 0, errors |-> 0]
                    /\ new.calls = <<>>
                /\ stale # {} =>
                    /\ new.pc = "e_delete" /\ new.idx = 1
                    /\ EvictCounted(new) = [evicted |-> 0, errors |-> 0]
                    /\ Len(new.files) = Cardinality(stale)
                    /\ \A i \in stale : \E j \in 1..Len(new.files) :
                            new.files[j] = table[i]
            /\ (old.kind = "evict" /\ old.pc = "e_delete" /\ new # old) =>
                LET p == old.files[old.idx].cloudreve_path IN
                /\ old.synced + old.errors = old.idx - 1
                /\ \/ /\ EvictCounted(new) = [evicted |-> old.synced + 1,
                                              errors |-> old.errors]
                      /\ getMappingByPath(table', p).has_local_cache = 0
                      /\ crFiles'[p] = NoFile
                   \/ /\ EvictCounted(new) = [evicted |-> old.synced,
                                              errors |-> old.errors + 1]
                      /\ table' = table /\ crFiles' = crFiles
                /\ IF old.idx < Len(old.files)
                   THEN /\ new.pc = "e_delete" /\ new.kind = "evict"
                        /\ new.idx = old.idx + 1 /\ new.files = old.files
                   ELSE /\ new.pc = "done" /\ new.result.ok
                        /\ new.result.evicted + new.result.errors = Len(old.files)]_vars

\* A pass over two stale entries returned {evicted: 1, errors: 1}: one mapping
\* is marked evicted, the other is still cached and its file still there.
C19_Witness ==
    \E t \in Tasks :
        /\ tasks[t].kind = "evict" /\ tasks[t].pc = "done" /\ tasks[t].result.ok
        /\ tasks[t].result.evicted = 1
        /\ tasks[t].result.errors = 1
        /\ Len(tasks[t].calls) = 2
        /\ \E i, j \in 1..Len(table) :
            /\ table[i].has_local_cache = 0 /\ crFiles[table[i].cloudreve_path] = NoFile
            /\ table[j].has_local_cache = 1 /\ crFiles[table[j].cloudreve_path] # NoFile

\* The step is one of an eviction pass: its start or one turn of its loop.
EvictionStep(t) ==
    /\ tasks'[t] # tasks[t]
    /\ \/ Invoked(t, "evict")
       \/ tasks[t].kind = "evict" /\ tasks[t].pc = "e_delete"

\* C20: a step of runEviction changes nothing in the table but
\* has_local_cache: the table keeps its length, every row either stays as it
\* is or differs only by has_local_cache = 0, and a row that changes is one
\* of the pass's stale entries; telegram_file_id, telegram_message_id,
\* cloudreve_file_id, created_at, last_accessed, file_name, mime_type and
\* file_size of an evicted row are what they were, and rows that are not
\* stale stay entirely as they are.
C20_EvictionOnlyClearsCached ==
    [][\A t \in Tasks : EvictionStep(t) =>
        /\ Len(table') = Len(table)
        /\ tgStore' = tgStore
        /\ \A i \in 1..Len(table) :
            \/ table'[i] = table[i]
            \/ /\ table'[i] = [table[i] EXCEPT !.has_local_cache = 0]
               /\ tasks[t].pc = "e_delete"
               /\ \E j \in 1..Len(tasks[t].files) :
                    tasks[t].files[j].cloudreve_path = table[i].cloudreve_path]_vars

\* A pass evicted one of two mappings: the evicted row still has its
\* cloudreve_file_id, telegram_file_id and timestamps, and the other row,
\* accessed too recently to be stale, is still cached.
C20_Witness ==
    \E t \in Tasks :
        /\ tasks[t].kind = "evict" /\ tasks[t].pc = "done"
        /\ tasks[t].result.evicted = 1 /\ tasks[t].result.errors = 0
        /\ Len(table) = 2
        /\ \E i, j \in 1..2 :
            /\ table[i].has_local_cache = 0
            /\ table[i].cloudreve_file_id # NoId
            /\ table[i].telegram_file_id # NoId
            /\ table[i].last_accessed > 0 /\ table[i].created_at > 0
            /\ table[j].has_local_cache = 1
            /\ table[j].last_accessed = now

\* The row was written by syncNewUploads and not accessed since: the object
\* its telegram_file_id names carries the row's path as caption, the row is
\* cached and last_accessed is still the time of creation.
FreshlySynced(r) ==
    /\ TgHasId(tgStore, r.telegram_file_id)
    /\ tgStore[r.telegram_file_id].caption = r.cloudreve_path
    /\ r.has_local_cache = 1
    /\ r.last_accessed = r.created_at

\* The pass that starts in this step takes the row (it is in its stale list).
EvictionTakes(t, r) ==
    \E j \in 1..Len(tasks'[t].files) :
        tasks'[t].files[j].cloudreve_path = r.cloudreve_path

\* The step is a successful delete of an eviction pass on path p.
EvictionDeletes(t, p) ==
    /\ tasks[t].kind = "evict" /\ tasks[t].pc = "e_delete"
    /\ tasks[t].files[tasks[t].idx].cloudreve_path = p
    /\ tasks'[t] # tasks[t]
    /\ EvictCounted(tasks'[t]).evicted = tasks[t].synced + 1

\* C21, as claimed: a pass with a 0-second threshold that starts after
\* syncNewUploads created a mapping, be it in the same clock second, takes the
\* mapping, and its delete leaves the primary store without the file and the
\* mapping with has_local_cache = 0 and its telegram_file_id.
C21_ZeroThresholdEvictsAtOnce ==
    [][\A t \in Tasks :
        (Invoked(t, "evict") /\ idleSecs = 0) =>
            \A i \in 1..Len(table) :
                FreshlySynced(table[i]) => EvictionTakes(t, table[i])]_vars

\* C21, amended: the pass takes the mapping when the clock has moved on since
\* syncNewUploads created it, and does not take it within the same clock
\* second (last_accessed < now - 0 is false); the delete of a mapping it takes
\* leaves the primary store without the file and the mapping with
\* has_local_cache = 0 and its telegram_file_id.
C21_ZeroThresholdEvictsNextSecond ==
    [][\A t \in Tasks :
        /\ (Invoked(t, "evict") /\ idleSecs = 0) =>
            \A i \in 1..Len(table) :
                FreshlySynced(table[i]) =>
                    (EvictionTakes(t, table[i]) <=> table[i].created_at < now)
        /\ \A p \in Paths :
            EvictionDeletes(t, p) =>
                /\ crFiles'[p] = NoFile
                /\ getMappingByPath(table', p).has_local_cache = 0
                /\ getMappingByPath(table', p).telegram_file_id
                        = getMappingByPath(table, p).telegram_file_id
                /\ getMappingByPath(table', p).telegram_file_id # NoId]_vars

\* syncNewUploads backed up a file, a second passed, and the eviction pass
\* that followed evicted the mapping, never accessed in between: it is not
\* cached, its file is gone and it names the object sync uploaded.
C21_Witness ==
    /\ idleSecs = 0
    /\ Len(history) = 2
    /\ history[1].kind = "sync" /\ history[1].result.synced >= 1
    /\ history[2].kind = "evict" /\ history[2].result.evicted >= 1
    /\ \E i \in 1..Len(table) :
        /\ table[i].has_local_cache = 0
        /\ table[i].created_at = table[i].last_accessed
        /\ crFiles[table[i].cloudreve_path] = NoFile
        /\ table[i].telegram_file_id > Len(BotFiles) + 1
        /\ tgStore[table[i].telegram_file_id].caption = table[i].cloudreve_path

\* The identity of a mapping: what neither eviction nor restore may change.
Identity(r) ==
    [cloudreve_path      |-> r.cloudreve_path,
     telegram_file_id    |-> r.telegram_file_id,
     telegram_message_id |-> r.telegram_message_id,
     created_at          |-> r.created_at]

\* The step is the successful upload that ends a restore of path p entered
\* because the mapping was not cached.
RestoreSucceeds(t, p) ==
    /\ RestoreUploadEnds(t)
    /\ tasks[t].path = p
    /\ tasks[t].mapping.has_local_cache = 0
    /\ nextCrId' # nextCrId

\* The mapping syncNewUploads wrote for the first inbox file.
SyncedRowA == SyncedTable({1})[1]

\* The caller ran runEviction, which evicted the first inbox file, and then
\* downloadProxy on its path, which restored it.
EvictedThenRestored ==
    /\ Quiescent
    /\ Len(history) = 2
    /\ history[1].kind = "evict" /\ history[1].result.evicted = 1
    /\ history[2].kind = "proxy" /\ history[2].result.ok
    /\ history[2].path = SyncedRowA.cloudreve_path
    /\ history[2].calls = <<"telegram.downloadFile", "cloudreve.createDirectory",
                            "cloudreve.uploadFile">>
    /\ getMappingByPath(table, history[2].path).has_local_cache = 1

\* C22: eviction followed by a successful restore gives the mapping back as
\* it was: each delete of runEviction and each step of the restoring
\* downloadProxy keeps cloudreve_path, telegram_file_id, telegram_message_id
\* and created_at of the row; the restore's upload leaves has_local_cache = 1
\* and returns the bytes stored under the mapping's telegram_file_id; and a
\* mapping written by sync, then evicted, then restored has the identity sync
\* gave it, is cached, and the caller gets the bytes sync uploaded.
C22_EvictRestoreRoundTrip ==
    /\ [][\A t \in Tasks : \A p \in Paths :
            /\ (EvictionDeletes(t, p)
                \/ (tasks'[t] # tasks[t] /\ tasks'[t].kind = "proxy"
                        /\ tasks'[t].path = p /\ HasMapping(table, p)))
                => Identity(getMappingByPath(table', p))
                        = Identity(getMappingByPath(table, p))
            /\ RestoreSucceeds(t, p) =>
                /\ getMappingByPath(table', p).has_local_cache = 1
                /\ crFiles'[p].data = tasks'[t].result.buffer
                /\ tasks'[t].result.ok
                /\ tasks'[t].result.buffer
                        = tgStore[getMappingByPath(table, p).telegram_file_id].data]_vars
    /\ [](EvictedThenRestored =>
            /\ Identity(getMappingByPath(table, history[2].path)) = Identity(SyncedRowA)
            /\ history[2].result.buffer = UserFile(1).data
            /\ tgStore[SyncedRowA.telegram_file_id].data = UserFile(1).data)

\* The round trip has happened: the first inbox file was evicted and then
\* restored under a new cloudreve_file_id, one second after it was synced.
C22_Witness ==
    /\ EvictedThenRestored
    /\ getMappingByPath(table, history[2].path).cloudreve_file_id = Len(InboxNames) + 1
    /\ getMappingByPath(table, history[2].path).last_accessed > SyncedRowA.last_accessed
    /\ crFiles[history[2].path].data = "dA"

\* C23: a file that is in the polled directory gets a mapping with a
\* telegram_file_id at some time, when the poll timer keeps firing and the
\* store calls made for the file succeed at some time; passes in which the
\* listing, the download or the upload failed do not prevent it.
C23_EventualBackup ==
    \A p \in Paths :
        (crFiles[p] # NoFile /\ ~HasMapping(table, p))
            ~> (HasMapping(table, p)
                /\ getMappingByPath(table, p).telegram_file_id # NoId)

\* The second inbox file was backed up before the first, which the directory
\* lists first: the first file failed in one pass and a later pass synced it.
C23_Witness ==
    /\ Len(table) = 2
    /\ table[1].cloudreve_path = JoinPath(InboxPath, InboxNames[2])
    /\ table[2].cloudreve_path = JoinPath(InboxPath, InboxNames[1])
    /\ table[2].telegram_file_id = Len(BotFiles) + 2
    /\ tgStore[table[2].telegram_file_id].caption = table[2].cloudreve_path
    /\ tasks[Poller].kind = "sync" /\ tasks[Poller].pc = "done"
    /\ tasks[Poller].result.synced = 1

\* The routes behind requireWebhookSecret.
GuardedRoutes == {"/api/mappings", "/api/sync", "/api/evict", "/cloudreve/webhook"}

\* The exchange is a request refused for its secret: WEBHOOK_SECRET is set and
\* the X-Webhook-Secret header is not equal to it.
WrongSecret(e) == e.secret # NullStr /\ e.provided # e.secret

\* C24: with WEBHOOK_SECRET set, a request to a guarded route whose
\* X-Webhook-Secret header differs from it (or is missing) is answered 401,
\* its handler is not called, and the step starts no pass, reads no mapping and
\* changes nothing in the stores or the table.
C24_WrongSecretRejected ==
    /\ [][(history' # history /\ WrongSecret(history'[Len(history')])) =>
            /\ tasks' = tasks
            /\ table' = table /\ crFiles' = crFiles /\ tgStore' = tgStore]_vars
    /\ [](\A i \in 1..Len(history) :
            /\ history[i].route \in GuardedRoutes
            /\ WrongSecret(history[i]) =>
                /\ history[i].status = 401
                /\ ~history[i].handled
                /\ history[i].total = -1)

\* Two requests were refused, one with a wrong header and one without a
\* header: no pass has been started.
C24_Witness ==
    /\ Len(history) = 2
    /\ history[1].route = "/api/sync" /\ history[1].provided = "guess"
    /\ history[2].route = "/api/evict" /\ history[2].provided = NullStr
    /\ \A i \in 1..2 : history[i].secret = "s3cret" /\ history[i].status = 401
    /\ \A t \in Tasks : tasks[t] = IdleTask
    /\ started = 2

\* The step is one of a downloadProxy invocation on path p.
ProxyStep(t, p) ==
    /\ tasks'[t] # tasks[t]
    /\ tasks'[t].kind = "proxy"
    /\ tasks'[t].path = p

\* C25: the step in which downloadProxy is called on a path that has a mapping
\* sets the mapping's last_accessed to the current time and ends at the await
\* of the first store call, with both stores as they were; no later step of
\* the invocation, whether it serves the cached copy, restores with or without
\* a successful upload, or fails, sets last_accessed to anything but the
\* current time.
C25_TouchBeforeAnyStoreCall ==
    [][\A t \in Tasks : \A p \in Paths :
        /\ (Invoked(t, "proxy") /\ tasks'[t].path = p /\ HasMapping(table, p)) =>
            /\ getMappingByPath(table', p).last_accessed = now
            /\ table' = touchMapping(table, p, now)
            /\ crFiles' = crFiles /\ tgStore' = tgStore /\ nextCrId' = nextCrId
            /\ tasks'[t].pc \in {"p_hit", "p_tgdownload"}
            /\ Len(tasks'[t].calls) = 1
        /\ (ProxyStep(t, p) /\ HasMapping(table, p)) =>
            getMappingByPath(table', p).last_accessed
                \in {getMappingByPath(table, p).last_accessed, now}]_vars

\* A downloadProxy on an evicted mapping failed at the Telegram download: the
\* mapping's last_accessed is the time of the call all the same.
C25_Witness ==
    \E t \in Tasks :
        /\ tasks[t].kind = "proxy" /\ tasks[t].pc = "done" /\ ~tasks[t].result.ok
        /\ tasks[t].calls = <<"telegram.downloadFile">>
        /\ started = 1
        /\ getMappingByPath(table, tasks[t].path).has_local_cache = 0
        /\ getMappingByPath(table, tasks[t].path).last_accessed = now
        /\ getMappingByPath(table, tasks[t].path).created_at < now

\* The invocation in slot t entered the restore path after the fetch of the
\* cached copy had failed.
RestoreAfterFailedHit(st) ==
    /\ st.kind = "proxy"
    /\ st.calls # <<>> /\ st.calls[1] = "cloudreve.downloadFile"
    /\ Len(st.calls) > 1

\* C26: the step that ends the fetch of the cached copy either returns its
\* bytes or, when the fetch failed (it must when the primary store has no file
\* under cloudreve_file_id), enters the restore path: the invocation is not
\* over, nothing is written, and telegram.downloadFile is awaited; the bytes it
\* then takes are those stored under the mapping's telegram_file_id.  No
\* downloadProxy ends in failure with the primary fetch as its last call.
C26_FailedHitFallsThrough ==
    /\ [][\A t \in Tasks :
            LET old == tasks[t]
                new == tasks'[t]
            IN  /\ (old.pc = "p_hit" /\ new # old) =>
                    /\ old.mapping.has_local_cache = 1
                    /\ table' = table /\ crFiles' = crFiles /\ tgStore' = tgStore
                    /\ \/ /\ new.pc = "done" /\ new.result.ok
                          /\ CrHasId(crFiles, old.mapping.cloudreve_file_id)
                       \/ /\ new.pc = "p_tgdownload"
                          /\ new.mapping = old.mapping
                          /\ new.calls = <<"cloudreve.downloadFile",
                                           "telegram.downloadFile">>
                /\ (old.pc = "p_tgdownload" /\ new.pc = "p_upload") =>
                    new.buffer = tgStore[old.mapping.telegram_file_id].data]_vars
    /\ [](\A t \in Tasks :
            (tasks[t].kind = "proxy" /\ tasks[t].pc = "done" /\ ~tasks[t].result.ok)
                => (tasks[t].calls = <<>>
                    \/ tasks[t].calls[Len(tasks[t].calls)] # "cloudreve.downloadFile"))

\* A downloadProxy on a cached mapping whose primary fetch failed returned the
\* bytes of the secondary store and uploaded them again.
C26_Witness ==
    \E t \in Tasks :
        /\ tasks[t].pc = "done" /\ tasks[t].result.ok
        /\ RestoreAfterFailedHit(tasks[t])
        /\ tasks[t].calls = <<"cloudreve.downloadFile", "telegram.downloadFile",
                              "cloudreve.createDirectory", "cloudreve.uploadFile">>
        /\ tasks[t].result.buffer
                = tgStore[getMappingByPath(table, tasks[t].path).telegram_file_id].data
        /\ getMappingByPath(table, tasks[t].path).has_local_cache = 1
        /\ getMappingByPath(table, tasks[t].path).cloudreve_file_id = nextCrId - 1
        /\ nextCrId > Len(InboxNames) + 1

\* The step ends the fetch of the cached copy with its bytes: a cache hit.
CacheHit(t) ==
    /\ tasks[t].kind = "proxy" /\ tasks[t].pc = "p_hit"
    /\ tasks'[t].pc = "done" /\ tasks'[t].result.ok

\* C27: on a cache hit downloadProxy returns the mapping's mime_type when the
\* mapping has one, whatever content type the response of the primary store
\* carries.
C27_HitPrefersStoredMime ==
    [][\A t \in Tasks :
        (CacheHit(t) /\ tasks[t].mapping.mime_type # NullStr)
            => tasks'[t].result.mimeType = tasks[t].mapping.mime_type]_vars

----------------------------------------------------------------------------
(* downloadProxy on a mapping whose metadata columns may be NULL *)

\* file_name and mime_type are nullable columns and upsertMapping binds
\* `fileName ?? null`, `mimeType ?? null`: the row of the first inbox file as
\* db.upsertMapping wrote it with or without them, cached or evicted; the
\* Telegram CDN answers with or without a content type.
InitRestore ==
    LET pathA == JoinPath(InboxPath, InboxNames[1]) IN
    /\ \E mime \in {"text/plain", NullStr}, name \in {NameA, NoName},
          cached \in {0, 1}, tgMime \in {"image/png", NullStr} :
        /\ table = <<[SyncedRowA EXCEPT !.mime_type = mime, !.file_name = name,
                                        !.has_local_cache = cached]>>
        /\ crFiles = IF cached = 1 THEN UserFiles({1})
                     ELSE CrDelete(UserFiles({1}), pathA)
        /\ tgStore = TgPut(BotFiles, UserFile(1).data, tgMime, pathA)
    /\ nextCrId = Len(InboxNames) + 1
    /\ now = 1
    /\ idleSecs = 0
    /\ tasks = [t \in Tasks |-> IdleTask]
    /\ started = 0
    /\ history = <<>>
    /\ sequential = FALSE

NextRestore ==
    \/ Tick
    \/ \E t \in Tasks :
        \/ \E p \in Paths : ProxyNotFound(t, p)
        \/ \E p \in Paths : ProxyStart(t, p)
        \/ ProxyHit(t)
        \/ ProxyHitFailed(t)
        \/ ProxyTgDownloaded(t)
        \/ ProxyTgDownloadFailed(t)
        \/ ProxyUploaded(t)
        \/ ProxyUploadFailed(t)

SpecRestore == InitRestore /\ [][NextRestore]_vars

\* C28: the restore path returns the mapping's mime_type if it has one and
\* otherwise the type telegram.downloadFile reported, and the mapping's
\* file_name if it has one and otherwise "file"; when the upload succeeds the
\* file in the primary store and the upserted mapping carry the same two
\* values.
C28_RestoreResolvesMimeAndName ==
    [][\A t \in Tasks :
        LET old == tasks[t]
            new == tasks'[t]
            m   == old.mapping
            M   == ResolvedMime(m, tgStore[m.telegram_file_id].ctype)
            N   == ResolvedName(m)
            row == getMappingByPath(table', old.path)
        IN  RestoreUploadEnds(t) =>
                /\ new.pc = "done" /\ new.result.ok
                /\ new.result.mimeType = M
                /\ new.result.fileName = N
                /\ nextCrId' # nextCrId =>
                    /\ crFiles'[old.path].ctype = M
                    /\ crFiles'[old.path].name = N
                    /\ row.mime_type = M
                    /\ row.file_name = N]_vars

\* A restore of a mapping without file_name and mime_type: the caller, the
\* primary store and the mapping all have "file" and the type Telegram gave.
C28_Witness ==
    \E t \in Tasks : \E p \in Paths :
        /\ tasks[t].kind = "proxy" /\ tasks[t].pc = "done" /\ tasks[t].path = p
        /\ tasks[t].result.ok
        /\ tasks[t].result.fileName = <<"f", "i", "l", "e">>
        /\ tasks[t].result.mimeType = "image/png"
        /\ crFiles[p].name = <<"f", "i", "l", "e">>
        /\ crFiles[p].ctype = "image/png"
        /\ getMappingByPath(table, p).file_name = <<"f", "i", "l", "e">>
        /\ getMappingByPath(table, p).mime_type = "image/png"
        /\ getMappingByPath(table, p).has_local_cache = 1

\* The step is the failed upload that ends a restore of path p: downloadProxy
\* marks the mapping evicted.
RestoreMarksEvicted(t, p) ==
    /\ RestoreUploadEnds(t)
    /\ tasks[t].path = p
    /\ nextCrId' = nextCrId
    /\ getMappingByPath(table', p).has_local_cache = 0

\* C29: when downloadProxy marks a mapping evicted after the upload of the
\* restore path failed, the primary store holds no file at the mapping's path,
\* also when the restore was entered after a failed fetch of the cached copy.
C29_MarkedEvictedMeansNoCopy ==
    [][\A t \in Tasks : \A p \in Paths :
        RestoreMarksEvicted(t, p) => crFiles'[p] = NoFile]_vars

\* The step of the pass in slot t moves its loop on: the listing has arrived,
\* or the file at old.idx is done with.
SyncLoopStep(t) ==
    /\ tasks[t].kind = "sync" /\ tasks'[t].kind = "sync"
    /\ tasks'[t] # tasks[t]
    /\ tasks[t].pc \in {"s_list", "s_download", "s_upload"}
    /\ tasks'[t].pc \in {"s_download", "done"}
    /\ tasks'[t].pc = "done" => tasks'[t].result.ok

\* The positions of the listing the step passes over without taking them.
SyncSkipped(t) ==
    LET from == IF tasks[t].pc = "s_list" THEN 1 ELSE tasks[t].idx + 1
        to   == IF tasks'[t].pc = "done" THEN Len(tasks'[t].files)
                ELSE tasks'[t].idx - 1
    IN  from..to

\* The listing of the pass during the step.
SyncListing(t) == IF tasks[t].pc = "s_list" THEN tasks'[t] ELSE tasks[t]

\* C30: a listed file whose path has a mapping when the loop reaches it is
\* passed over, be the mapping cached or not: the loop never takes it (the
\* file it awaits a download for has no mapping), no call is made for it, no
\* object is added to the secondary store under its path, and its row stays
\* as it is.
C30_MappedFilesSkipped ==
    [][\A t \in Tasks : SyncLoopStep(t) =>
        LET old == tasks[t]
            new == tasks'[t]
            lst == SyncListing(t)
        IN  /\ \A j \in SyncSkipped(t) :
                LET pj == SyncFilePath(lst, j) IN
                /\ HasMapping(table', pj)
                /\ getMappingByPath(table', pj) = getMappingByPath(table, pj)
                /\ {i \in 1..Len(tgStore') : tgStore'[i].caption = pj} = UploadsFor(pj)
            /\ new.pc = "s_download" =>
                /\ ~HasMapping(table', SyncFilePath(lst, new.idx))
                /\ new.calls = Append(old.calls, "cloudreve.downloadFile")
            /\ new.pc = "done" => new.calls = old.calls]_vars

\* A pass that started after a downloadProxy had left the one listed file
\* mapped but not cached (its restore upload had failed while the file was
\* there) returned without any call for it: both invocations ran in the first
\* slot, one after the other.
C30_Witness ==
    /\ started = 2
    /\ tasks["t2"] = IdleTask
    /\ tasks["t1"].kind = "sync" /\ tasks["t1"].pc = "done" /\ tasks["t1"].result.ok
    /\ tasks["t1"].result.synced = 0 /\ tasks["t1"].result.errors = 0
    /\ tasks["t1"].calls = <<"cloudreve.createDirectory", "cloudreve.listDirectory">>
    /\ Len(table) = 1
    /\ table[1].has_local_cache = 0
    /\ crFiles[table[1].cloudreve_path] # NoFile
    /\ Cardinality(UploadsFor(table[1].cloudreve_path)) = 1

\* The step is one of a syncNewUploads pass that is past the listing.
SyncFileStep(t) ==
    /\ tasks[t].kind = "sync"
    /\ tasks[t].pc \in {"s_download", "s_upload"}
    /\ tasks'[t] # tasks[t]

\* C31: a syncNewUploads pass writes to the table only in the step in which
\* telegram.uploadFile returns: the secondary store has one more object, with
\* the bytes downloaded, and the mapping of the file then has
\* has_local_cache = 1, the listed file id as cloudreve_file_id and the
\* returned id as telegram_file_id; a step in which the download or the upload
\* fails (errors goes up) leaves the table as it is.
C31_MappingAfterUpload ==
    [][\A t \in Tasks : SyncFileStep(t) =>
        LET old  == tasks[t]
            new  == tasks'[t]
            file == old.files[old.idx]
            row  == getMappingByPath(table', SyncFilePath(old, old.idx))
        IN  /\ table' # table =>
                /\ old.pc = "s_upload"
                /\ Len(tgStore') = Len(tgStore) + 1
                /\ tgStore'[Len(tgStore')].data = old.buffer
                /\ row.has_local_cache = 1
                /\ row.cloudreve_file_id = file.fileId
                /\ row.telegram_file_id = Len(tgStore')
                /\ SyncCounted(new).synced = old.synced + 1
                /\ \A p \in Paths :
                    p # SyncFilePath(old, old.idx)
                        => getMappingByPath(table', p) = getMappingByPath(table, p)
            /\ SyncCounted(new).errors = old.errors + 1 =>
                /\ table' = table /\ tgStore' = tgStore
            /\ new.pc = "s_upload" => table' = table]_vars

\* A pass in which the first file's upload failed and the second file was
\* backed up: the only mapping is the second file's, cached, with the listed
\* file id and the id of the object uploaded last.
C31_Witness ==
    \E t \in Tasks :
        /\ tasks[t].kind = "sync" /\ tasks[t].pc = "done" /\ tasks[t].result.ok
        /\ tasks[t].result.synced = 1 /\ tasks[t].result.errors = 1
        /\ CallsOf(tasks[t].calls, "telegram.uploadFile") = {4, 6}
        /\ Len(table) = 1
        /\ table[1].cloudreve_path = JoinPath(InboxPath, InboxNames[2])
        /\ table[1].has_local_cache = 1
        /\ table[1].cloudreve_file_id = UserFile(2).fileId
        /\ table[1].telegram_file_id = Len(tgStore)
        /\ tgStore[Len(tgStore)].data = UserFile(2).data

----------------------------------------------------------------------------
(* telegram.js: the Bot API requests of TelegramClient.uploadFile *)

\* The content types the primary store reports for the second inbox file.
MimeTypes == {"image/png", "Image/PNG", "audio/mpeg", "video/mp4",
              "application/pdf", NullStr}

\* getUploadMethod: the first entry of UPLOAD_METHOD_MAP whose prefix the
\* lowercased type starts with, else sendDocument.
getUploadMethod(mimeType) ==
    IF mimeType \in {"image/png", "Image/PNG"} THEN "sendPhoto"
    ELSE IF mimeType = "audio/mpeg" THEN "sendAudio"
    ELSE IF mimeType = "video/mp4" THEN "sendVideo"
    ELSE "sendDocument"

\* One request of an uploadFile call, as `history` logs it when it is answered:
\* the invocation, the listed file, the method, and whether _call returned.
Request(st, method, ok) ==
    [pass |-> started, file |-> st.idx, method |-> method, ok |-> ok]

\* The tasks and the request log after slot t has moved to st.
UploadStep(t, st, log) ==
    /\ tasks' = [tasks EXCEPT ![t] = st]
    /\ history' = log
    /\ UNCHANGED <<started, sequential>>

\* uploadFile returns {fileId, messageId} to syncNewUploads: the mapping is
\* written, synced++ and the loop goes on.
UploadReturns(t, log) ==
    LET st   == tasks[t]
        file == st.files[st.idx]
        tgId == Len(tgStore) + 1
        tbl  == upsertMapping(table, SyncRecord(st, tgId, now), now)
    IN  /\ Len(tgStore) < Len(BotFiles) + MaxTgUploads
        /\ tgStore' = TgPut(tgStore, st.buffer, st.mimeType,
                            JoinPath(st.path[1], file.name))
        /\ table' = tbl
        /\ UploadStep(t, SyncLoop([st EXCEPT !.synced = st.synced + 1], tbl,
                                  st.idx + 1), log)
        /\ UNCHANGED <<crFiles, nextCrId, now, idleSecs>>

\* uploadFile throws to syncNewUploads: errors++ and the loop goes on.
UploadThrows(t, log) ==
    LET st == tasks[t] IN
    /\ UploadStep(t, SyncLoop([st EXCEPT !.errors = st.errors + 1], table,
                              st.idx + 1), log)
    /\ UNCHANGED <<table, crFiles, nextCrId, tgStore, now, idleSecs>>

\* The first _call(method, form) returns a result with a file_id.
UploadFirstOk(t) ==
    /\ tasks[t].pc = "s_upload"
    /\ UploadReturns(t, Append(history,
            Request(tasks[t], getUploadMethod(tasks[t].mimeType), TRUE)))

\* Variant: the catch block sends the file again whatever the method was.
UploadFirstFailedAlwaysFallsBack(t) ==
    /\ tasks[t].pc = "s_upload"
    /\ LET st     == tasks[t]
           method == getUploadMethod(st.mimeType)
           log    == Append(history, Request(st, method, FALSE))
       IN  /\ UploadStep(t, [st EXCEPT !.pc = "s_fallback"], log)
           /\ UNCHANGED <<table, crFiles, nextCrId, tgStore, now, idleSecs>>

\* The first _call(method, form) throws: when the method is not sendDocument
\* the same bytes are sent again with sendDocument, otherwise firstErr is
\* thrown.
UploadFirstFailed(t) ==
    /\ tasks[t].pc = "s_upload"
    /\ LET st     == tasks[t]
           method == getUploadMethod(st.mimeType)
           log    == Append(history, Request(st, method, FALSE))
       IN  IF method # "sendDocument"
           THEN /\ UploadStep(t, [st EXCEPT !.pc = "s_fallback"], log)
                /\ UNCHANGED <<table, crFiles, nextCrId, tgStore, now, idleSecs>>
           ELSE UploadThrows(t, log)

\* The fallback _call('sendDocument', fallbackForm) returns.
UploadFallbackOk(t) ==
    /\ tasks[t].pc = "s_fallback"
    /\ UploadReturns(t, Append(history, Request(tasks[t], "sendDocument", TRUE)))

\* The fallback _call throws: nothing catches it inside uploadFile.
UploadFallbackFailed(t) ==
    /\ tasks[t].pc = "s_fallback"
    /\ UploadThrows(t, Append(history, Request(tasks[t], "sendDocument", FALSE)))

\* A _call returns, but extractFileId finds no file_id in the result:
\* uploadFile throws 'Telegram upload succeeded but no file_id found'.
UploadNoFileId(t) ==
    /\ tasks[t].pc \in {"s_upload", "s_fallback"}
    /\ LET st     == tasks[t]
           method == IF st.pc = "s_upload" THEN getUploadMethod(st.mimeType)
                     ELSE "sendDocument"
       IN  UploadThrows(t, Append(history, Request(st, method, TRUE)))

\* The process starts with the second inbox file of any of the content types;
\* the database file is new or left by an earlier run.
InitUpload ==
    LET pathA == JoinPath(InboxPath, InboxNames[1])
        pathB == JoinPath(InboxPath, InboxNames[2])
    IN
    /\ idleSecs = 0
    /\ \E mime \in MimeTypes, db \in DbFiles :
        LET files == [UserFiles({1, 2}) EXCEPT ![pathB].ctype = mime] IN
        /\ table = CASE db = "new"     -> <<>>
                     [] db = "synced"  -> SyncedTable({1, 2})
                     [] db = "evicted" -> markEvicted(SyncedTable({1, 2}), pathA)
        /\ crFiles = IF db = "evicted" THEN CrDelete(files, pathA) ELSE files
        /\ tgStore = IF db = "new" THEN BotFiles
                     ELSE TgPut(BotFiles, UserFile(1).data,
                                OrStr(UserFile(1).ctype, DefaultMime), pathA)
        /\ now = IF db = "evicted" THEN 2 + idleSecs ELSE 1
    /\ nextCrId = Len(InboxNames) + 1
    /\ tasks = [t \in Tasks |-> IdleTask]
    /\ started = 0
    /\ history = <<>>
    /\ sequential = FALSE

\* The four operations, called one after the other, with the uploads of
\* syncNewUploads taken request by request.
NextUpload ==
    \/ Tick
    \/ SyncStart(Poller)
    \/ SyncListed(Poller)
    \/ SyncListFailed(Poller)
    \/ SyncDownloaded(Poller)
    \/ SyncDownloadFailed(Poller)
    \/ UploadFirstOk(Poller)
    \/ UploadFirstFailed(Poller)
    \/ UploadFallbackOk(Poller)
    \/ UploadFallbackFailed(Poller)
    \/ UploadNoFileId(Poller)
    \/ \E p \in Paths : ProxyStart(Poller, p)
    \/ ProxyHit(Poller)
    \/ ProxyHitFailed(Poller)
    \/ ProxyTgDownloaded(Poller)
    \/ ProxyTgDownloadFailed(Poller)
    \/ ProxyUploaded(Poller)
    \/ ProxyUploadFailed(Poller)
    \/ \E req \in ImportReqs : ImportStart(Poller, req)
    \/ ImportTgDownloaded(Poller)
    \/ ImportTgDownloadFailed(Poller)
    \/ ImportUploaded(Poller)
    \/ ImportUploadFailed(Poller)
    \/ EvictStart(Poller)
    \/ EvictDeleted(Poller)
    \/ EvictDeleteFailed(Poller)

SpecUpload == InitUpload /\ [][NextUpload]_vars

\* The requests the log holds for the file of request i in the same invocation.
SameUpload(i) ==
    {j \in DOMAIN history : /\ history[j].pass = history[i].pass
                            /\ history[j].file = history[i].file}

\* No invocation makes a store call a second time: downloadProxy and
\* importFromTelegram make each of their calls once, runEviction one deleteFile
\* per stale entry it has reached, syncNewUploads one downloadFile and at most
\* one uploadFile per listed file it has reached.
CallsNotRepeated ==
    \A t \in Tasks :
        LET st == tasks[t] IN
        /\ st.kind \in {"proxy", "import"}
            => \A i \in DOMAIN st.calls : CallsOf(st.calls, st.calls[i]) = {i}
        /\ st.kind = "evict" /\ InFlight(t)
            => Cardinality(CallsOf(st.calls, "cloudreve.deleteFile")) = st.idx
        /\ st.kind = "sync" /\ InFlight(t) /\ st.pc # "s_list"
            => /\ Cardinality(CallsOf(st.calls, "cloudreve.downloadFile")) <= st.idx
               /\ Cardinality(CallsOf(st.calls, "telegram.uploadFile"))
                    <= Cardinality(CallsOf(st.calls, "cloudreve.downloadFile"))

\* C33 as stated: no invocation repeats a store request; in particular a pass
\* of syncNewUploads sends at most one upload request per file to the secondary
\* store, whatever the file's type.
C33_NoRequestRepeated ==
    /\ CallsNotRepeated
    /\ \A i \in DOMAIN history : SameUpload(i) = {i}

\* C33: no invocation repeats a store call, and an uploadFile call of
\* syncNewUploads sends one request, except that an upload whose first request
\* was sendPhoto, sendAudio or sendVideo and failed is sent once more, as
\* sendDocument; a failed sendDocument request is never followed by another
\* request for the file in the same pass.
C33_OnlyFallbackRepeats ==
    /\ CallsNotRepeated
    /\ \A i \in DOMAIN history :
        /\ Cardinality(SameUpload(i)) <= 2
        /\ \A j \in SameUpload(i) :
            i < j => /\ history[i].method \in {"sendPhoto", "sendAudio", "sendVideo"}
                     /\ ~history[i].ok
                     /\ history[j].method = "sendDocument"
        /\ (history[i].method = "sendDocument" \/ history[i].ok)
            => \A j \in SameUpload(i) : j <= i

\* A pass sent the second inbox file with sendPhoto, which failed, and then
\* with sendDocument, which returned: the file is backed up.
C33_Witness ==
    /\ Len(history) >= 2
    /\ LET i == Len(history) - 1 IN
        /\ SameUpload(i) = {i, i + 1}
        /\ history[i].method = "sendPhoto" /\ ~history[i].ok
        /\ history[i + 1].method = "sendDocument" /\ history[i + 1].ok
    /\ tasks[Poller].kind = "sync" /\ tasks[Poller].pc = "done"
    /\ tasks[Poller].result.synced >= 1
    /\ getMappingByPath(table, JoinPath(InboxPath, InboxNames[2])).telegram_file_id
         = Len(tgStore)

\* No downloadProxy call on path p has been made since the process started.
NeverRead(p) ==
    /\ \A i \in DOMAIN history : ~(history[i].kind = "proxy" /\ history[i].path = p)
    /\ \A t \in Tasks : ~(tasks[t].kind = "proxy" /\ tasks[t].path = p)

\* C32: an eviction pass, whatever the threshold and the time, does not take a
\* mapping that syncNewUploads created and downloadProxy has not read since.
C32_NeverReadNeverEvicted ==
    [][\A t \in Tasks :
        Invoked(t, "evict") =>
            \A i \in 1..Len(table) :
                (FreshlySynced(table[i]) /\ NeverRead(table[i].cloudreve_path))
                    => ~EvictionTakes(t, table[i])]_vars

\* The step is a direct call of db function `kind`.
DbCalled(kind) ==
    /\ started' = started + 1
    /\ history' # <<>>
    /\ history'[1].kind = kind

\* The table after the call is the table before it with the row of path p, if
\* there is one, replaced by `change` of it.
OnlyRowChanged(p, change(_)) ==
    /\ Len(table') = Len(table)
    /\ \A i \in 1..Len(table) :
        table'[i] = IF table[i].cloudreve_path = p THEN change(table[i])
                    ELSE table[i]

\* C34: touchMapping changes only last_accessed (to now), markEvicted only
\* has_local_cache (to 0), markCached only has_local_cache (to 1) and
\* last_accessed (to now), each in the row of the given path and in no other;
\* on a path without a mapping each leaves the table as it is.
C34_UpdatesChangeOnlyTheirFields ==
    [][LET p == history'[1].path IN
       /\ DbCalled("touchMapping") =>
            OnlyRowChanged(p, LAMBDA r : [r EXCEPT !.last_accessed = now])
       /\ DbCalled("markEvicted") =>
            OnlyRowChanged(p, LAMBDA r : [r EXCEPT !.has_local_cache = 0])
       /\ DbCalled("markCached") =>
            OnlyRowChanged(p, LAMBDA r : [r EXCEPT !.has_local_cache = 1,
                                                   !.last_accessed = now])
       /\ (\E kind \in {"touchMapping", "markEvicted", "markCached"} :
                DbCalled(kind) /\ ~HasMapping(table, p))
            => table' = table]_vars

\* markCached was called on an evicted mapping last accessed a second ago,
\* while the table holds a second mapping: the first is cached and accessed
\* now, the second is as upsertMapping wrote it.
C34_Witness ==
    /\ Len(history) = 1
    /\ history[1].kind = "markCached"
    /\ history[1].before # NoRow
    /\ history[1].before.has_local_cache = 0
    /\ history[1].before.last_accessed < now
    /\ Len(table) = 2
    /\ getMappingByPath(table, history[1].path)
         = [history[1].before EXCEPT !.has_local_cache = 1, !.last_accessed = now]
    /\ \E i \in 1..2 : /\ table[i].cloudreve_path # history[1].path
                       /\ table[i].has_local_cache = 0

\* C35: whatever the interleaving of runEviction with downloadProxy calls, a
\* delete of the primary copy is carried out only while the mapping's
\* last_accessed is still older than now minus the idle threshold.
C35_DeleteOnlyWhileStale ==
    [][\A t \in Tasks : \A p \in Paths :
        EvictionDeletes(t, p)
            => getMappingByPath(table, p).last_accessed < now - idleSecs]_vars

\* C36: a downloadProxy call that is served the cached copy changes the table
\* in its first step only, and there only last_accessed of its path's row (to
\* now); the step that returns the bytes leaves the table and both stores as
\* they are, and the only store call of the invocation is the download from
\* the primary store.
C36_HitOnlyTouches ==
    [][\A t \in Tasks :
        /\ (Invoked(t, "proxy") /\ tasks'[t].pc = "p_hit") =>
            /\ OnlyRowChanged(tasks'[t].path,
                              LAMBDA r : [r EXCEPT !.last_accessed = now])
            /\ crFiles' = crFiles /\ nextCrId' = nextCrId /\ tgStore' = tgStore
        /\ CacheHit(t) =>
            /\ table' = table
            /\ crFiles' = crFiles /\ nextCrId' = nextCrId /\ tgStore' = tgStore
            /\ tasks'[t].calls = <<"cloudreve.downloadFile">>
            /\ tasks'[t].result.buffer
                 = CrFileOfId(crFiles, tasks[t].mapping.cloudreve_file_id).data]_vars

\* A cached mapping written at second 1 was read at second 2 and served from
\* the primary store: it is as it was but for last_accessed, and neither store
\* has received anything.
C36_Witness ==
    \E t \in Tasks :
        /\ tasks[t].kind = "proxy" /\ tasks[t].pc = "done" /\ tasks[t].result.ok
        /\ tasks[t].calls = <<"cloudreve.downloadFile">>
        /\ started = 1
        /\ now = 2
        /\ Len(table) = 1
        /\ table[1].cloudreve_path = tasks[t].path
        /\ table[1] = [SyncedRowA EXCEPT !.last_accessed = 2,
                                         !.mime_type = table[1].mime_type,
                                         !.file_name = table[1].file_name]
        /\ Len(tgStore) = Len(BotFiles) + 1
        /\ nextCrId = Len(InboxNames) + 1

\* Every invocation made so far is an importFromTelegram or a syncNewUploads.
OnlyImportsAndSyncs ==
    \A t \in Tasks : tasks[t].kind \in {"none", "import", "sync"}

\* C37: when importFromTelegram and syncNewUploads calls, however interleaved,
\* have all finished, the tgFileId an importFromTelegram call returned is the
\* telegram_file_id of the mapping at the path it returned.
C37_ReturnedIdIsStoredId ==
    (Quiescent /\ OnlyImportsAndSyncs) =>
        \A t \in Tasks :
            (tasks[t].kind = "import" /\ tasks[t].pc = "done" /\ tasks[t].result.ok)
                => getMappingByPath(table, tasks[t].result.cloudreve_path).telegram_file_id
                     = tasks[t].result.tgFileId

\* The step ends an importFromTelegram invocation with a rejection.
ImportFails(t) ==
    /\ tasks[t].kind = "import" /\ InFlight(t)
    /\ tasks'[t].pc = "done" /\ ~tasks'[t].result.ok

\* Completed call i was an importFromTelegram that rejected, and the next
\* completed call is an importFromTelegram for the same destination.
ImportAgain(i) ==
    /\ i \in 1..(Len(history) - 1)
    /\ history[i].kind = "import" /\ ~history[i].result.ok
    /\ history[i + 1].kind = "import"
    /\ history[i + 1].path = history[i].path

\* C38: the step in which telegram.downloadFile or cloudreve.uploadFile fails
\* ends importFromTelegram with that error and leaves the table and the
\* primary store as they are, the destination without a mapping; the next
\* importFromTelegram for the destination makes the download again, and the
\* upload too if the download succeeds, and a mapping exists afterwards only
\* if that call returned.
C38_FailedImportLeavesNoMapping ==
    /\ [][\A t \in Tasks :
            ImportFails(t) =>
                /\ table' = table /\ crFiles' = crFiles /\ nextCrId' = nextCrId
                /\ ~HasMapping(table', tasks[t].path)
                /\ tasks'[t].result.message # <<>>
                /\ tasks[t].pc = "i_upload" =>
                     tasks'[t].result.message[1] = "Cloudreve chunk upload failed ("
                /\ tasks[t].pc = "i_tgdownload" =>
                     tasks'[t].result.message
                        \in TgDownloadErrors(tasks[t].req.telegramFileId)]_vars
    /\ [](\A i \in DOMAIN history :
            ImportAgain(i) =>
                LET again == history[i + 1] IN
                /\ Len(again.calls) >= 2
                /\ again.calls[1] = "cloudreve.createDirectory"
                /\ again.calls[2] = "telegram.downloadFile"
                /\ again.result.ok =>
                     again.calls = <<"cloudreve.createDirectory",
                                     "telegram.downloadFile", "cloudreve.uploadFile">>
                /\ (Len(history) = i + 1 /\ Quiescent) =>
                     (HasMapping(table, again.path) <=> again.result.ok))

\* An import whose upload to the primary store failed was followed by an
\* import for the same destination, which downloaded and uploaded again and
\* wrote the mapping.
C38_Witness ==
    /\ Len(history) = 2
    /\ ImportAgain(1)
    /\ history[1].calls = <<"cloudreve.createDirectory", "telegram.downloadFile",
                            "cloudreve.uploadFile">>
    /\ history[2].result.ok
    /\ history[2].calls = history[1].calls
    /\ getMappingByPath(table, history[2].path).telegram_file_id
         = history[2].req.telegramFileId
    /\ getMappingByPath(table, history[2].path).has_local_cache = 1

----------------------------------------------------------------------------
(* The operations and the direct db updates against one clock *)

\* The four operations, called one after the other, between direct calls of
\* touchMapping, markEvicted and markCached.
NextClock ==
    \/ Tick
    \/ \E p \in Paths : DbTouch(p)
    \/ \E p \in Paths : DbMarkEvicted(p)
    \/ \E p \in Paths : DbMarkCached(p)
    \/ SyncStart(Poller)
    \/ SyncListed(Poller)
    \/ SyncListFailed(Poller)
    \/ SyncDownloaded(Poller)
    \/ SyncDownloadFailed(Poller)
    \/ SyncUploaded(Poller)
    \/ SyncUploadFailed(Poller)
    \/ \E p \in Paths : ProxyStart(Poller, p)
    \/ ProxyHit(Poller)
    \/ ProxyHitFailed(Poller)
    \/ ProxyTgDownloaded(Poller)
    \/ ProxyTgDownloadFailed(Poller)
    \/ ProxyUploaded(Poller)
    \/ ProxyUploadFailed(Poller)
    \/ \E req \in ImportReqs : ImportStart(Poller, req)
    \/ ImportTgDownloaded(Poller)
    \/ ImportTgDownloadFailed(Poller)
    \/ ImportUploaded(Poller)
    \/ ImportUploadFailed(Poller)
    \/ EvictStart(Poller)
    \/ EvictDeleted(Poller)
    \/ EvictDeleteFailed(Poller)

SpecClock == Init /\ [][NextClock]_vars

\* C39: while the clock does not go back, no step of touchMapping, markCached,
\* markEvicted, syncNewUploads, importFromTelegram, downloadProxy or
\* runEviction removes a mapping or lowers its last_accessed.
C39_LastAccessedNeverDecreases ==
    [][/\ now' >= now
       /\ \A p \in Paths :
            HasMapping(table, p) =>
                /\ HasMapping(table', p)
                /\ getMappingByPath(table', p).last_accessed
                     >= getMappingByPath(table, p).last_accessed]_vars

\* A mapping evicted at second 1 was read and restored at second 2 and then
\* marked evicted by a direct call: its last_accessed went from 1 to 2 and
\* stayed there.
C39_Witness ==
    /\ started = 2
    /\ tasks[Poller].kind = "proxy" /\ tasks[Poller].pc = "done"
    /\ tasks[Poller].mapping = NoRow
    /\ Len(tasks[Poller].calls) = 3
    /\ history # <<>> /\ history[1].kind = "markEvicted"
    /\ history[1].path = tasks[Poller].path
    /\ history[1].before.last_accessed = now
    /\ history[1].before.created_at < now
    /\ history[1].before.has_local_cache = 1
    /\ history[1].before.cloudreve_file_id = nextCrId - 1
    /\ nextCrId > Len(InboxNames) + 1
    /\ getMappingByPath(table, tasks[Poller].path).last_accessed = now
    /\ getMappingByPath(table, tasks[Poller].path).has_local_cache = 0

----------------------------------------------------------------------------
(* cache.js: the eviction scheduler *)

\* The calls of startEvictionScheduler and stopEvictionScheduler a run makes.
MaxSchedulerCalls == 4

\* The scheduler when cache.js has been loaded: `_job` is null (0), node-cron
\* has no running task, cron.schedule has not been called.  `history` logs
\* each scheduler call with the state it left.
SchedulerLoaded == [call |-> "load", job |-> 0, running |-> {}, made |-> 0]

SchedulerState == IF history = <<>> THEN SchedulerLoaded ELSE history[Len(history)]

\* Variant: startEvictionScheduler without `if (_job) return`.
startEvictionSchedulerNoGuard(s) ==
    [call |-> "start", job |-> s.made + 1,
     running |-> s.running \cup {s.made + 1}, made |-> s.made + 1]

\* if (_job) return; _job = cron.schedule('0 2 * * *', runEviction, ...)
startEvictionScheduler(s) ==
    IF s.job # 0 THEN [s EXCEPT !.call = "start"]
    ELSE [call |-> "start", job |-> s.made + 1,
          running |-> s.running \cup {s.made + 1}, made |-> s.made + 1]

\* if (_job) { _job.stop(); _job = null; }
stopEvictionScheduler(s) ==
    IF s.job # 0
    THEN [s EXCEPT !.call = "stop", !.job = 0, !.running = s.running \ {s.job}]
    ELSE [s EXCEPT !.call = "stop"]

\* A scheduler call that leaves the scheduler in state `after`.
SchedulerCall(after) ==
    /\ history' = Append(history, after)
    /\ UNCHANGED <<table, crFiles, nextCrId, tgStore, now, idleSecs, tasks,
                   started, sequential>>

StartScheduler ==
    /\ Len(history) < MaxSchedulerCalls
    /\ SchedulerCall(startEvictionScheduler(SchedulerState))

StopScheduler ==
    /\ Len(history) < MaxSchedulerCalls
    /\ SchedulerCall(stopEvictionScheduler(SchedulerState))

\* 02:00 UTC: a running task calls runEviction.  The passes of the job are
\* not counted in `started`; a pass is over well before the next day.
CronFire ==
    /\ SchedulerState.running # {}
    /\ ~InFlight(Poller)
    /\ tasks' = [tasks EXCEPT ![Poller] =
                    EvictLoop([IdleTask EXCEPT
                                 !.kind = "evict",
                                 !.files = getStaleEntries(table, idleSecs, now)], 1)]
    /\ UNCHANGED <<table, crFiles, nextCrId, tgStore, now, idleSecs, started,
                   sequential, history>>

NextCron ==
    \/ Tick
    \/ StartScheduler
    \/ StopScheduler
    \/ CronFire
    \/ EvictDeleted(Poller)
    \/ EvictDeleteFailed(Poller)

InitCron ==
    /\ idleSecs = 0
    /\ \E db \in DbFiles : InitStores({1, 2}, db)
    /\ sequential = FALSE

SpecCron == InitCron /\ [][NextCron]_vars

\* The scheduler before logged call i.
SchedulerBefore(i) == IF i = 1 THEN SchedulerLoaded ELSE history[i - 1]

\* C40: after every scheduler call at most one task is running, the one `_job`
\* holds; a startEvictionScheduler call made while a job exists creates and
\* starts nothing, and one made when there is none, as after
\* stopEvictionScheduler, creates exactly one task, which is then the only one
\* running.
C40_AtMostOneJob ==
    \A i \in DOMAIN history :
        LET s      == history[i]
            before == SchedulerBefore(i)
        IN  /\ Cardinality(s.running) <= 1
            /\ s.running = (IF s.job = 0 THEN {} ELSE {s.job})
            /\ (s.call = "start" /\ before.job # 0) =>
                    /\ s.made = before.made
                    /\ s.running = before.running
                    /\ s.job = before.job
            /\ (s.call = "start" /\ before.job = 0) =>
                    /\ s.made = before.made + 1
                    /\ s.running = {s.made}
            /\ s.call = "stop" => s.running = {} /\ s.made = before.made

\* start, start, stop, start: cron.schedule was called twice in all, and only
\* the second task is running.
C40_Witness ==
    /\ Len(history) = 4
    /\ history[1].call = "start" /\ history[2].call = "start"
    /\ history[3].call = "stop"  /\ history[4].call = "start"
    /\ history[2].made = 1 /\ history[2].running = {1}
    /\ history[3].running = {}
    /\ history[4].made = 2 /\ history[4].running = {2} /\ history[4].job = 2

====
